---- MODULE Spec2Model ----
(***************************************************************************)
(* Model of the hardware monitor's collection round (fetcher.go):          *)
(* fetchSystemStats fans out three fetch goroutines over a SystemMonitor,  *)
(* joins them with a WaitGroup, merges their MetricResults into one        *)
(* SystemStats and sends it on statsCh.                                    *)
(*                                                                         *)
(* Data representation                                                     *)
(*   float64  [ip, fn, fd]  the exact value ip + fn/fd in lowest terms     *)
(*            (every value of the model is a dyadic rational below 2^53,   *)
(*            which float64 holds exactly)                                 *)
(*   uint64   [hi, lo]      the value hi * Limb + lo, 0 <= lo < Limb       *)
(*   error    a sequence of message parts, outermost first; << >> is nil   *)
(*   pointer  [isNil, ...]  the pointed-to struct, zeroed when isNil       *)
(***************************************************************************)
EXTENDS Integers, Sequences, FiniteSets, TLC

VARIABLES monitor, pcMain, pcFetch, pcWait, wg, results, closed, stats,
          log, statsCh, outcome, emitted, consumed, sent, received, crashed,
          hangs, answers, pcApp, uiState, polling, ticker, tickC, uiEvent,
          widgets, screen, quitSeen, cpuCh, memCh, diskCh

\* the state of the dispatch loop (app.go, ui.go)
loopVars == <<pcApp, uiState, polling, ticker, tickC, uiEvent, widgets,
              screen, quitSeen>>

\* the state of one collection round (fetcher.go)
roundVars == <<monitor, pcMain, pcFetch, pcWait, wg, results, closed, stats,
               log, statsCh, outcome, emitted, consumed, sent, received,
               crashed, hangs, answers>>

\* the channels of the older collector (part_003), one for each kind
sentinelVars == <<cpuCh, memCh, diskCh>>

vars == <<roundVars, loopVars, sentinelVars>>

(***************************************************************************)
(* Bounds of the model.                                                    *)
(***************************************************************************)
\* number of distinct readings each source can report
MaxReading == 2

(***************************************************************************)
(* config.go                                                               *)
(***************************************************************************)
\* the divisor of a conversion to megabytes
BytesToMB == 1024 * 1024
BytesToGB == 1024 * 1024 * 1024
MetricCount == 3
ChannelBuffer == 1
ResultsBuffer == 3

(***************************************************************************)
(* Numbers.                                                                *)
(***************************************************************************)
\* weight of the high limb of a uint64
Limb == 1024 * 1024 * 1024

RECURSIVE GCD(_, _)
GCD(a, b) == IF b = 0 THEN a ELSE GCD(b, a % b)

\* the float64 ip + n/d, fraction in lowest terms
Float(ip, n, d) ==
    IF n = 0 THEN [ip |-> ip, fn |-> 0, fd |-> 1]
    ELSE LET g == GCD(n, d) IN [ip |-> ip, fn |-> n \div g, fd |-> d \div g]

Zero == Float(0, 0, 1)

U64(hi, lo) == [hi |-> hi, lo |-> lo]

\* the division with the megabyte divisor 1024^2 in place of BytesToGB
DivFloatMB(u, d) ==
    Float(u.hi * (Limb \div (d \div 1024)) + u.lo \div (d \div 1024), u.lo % (d \div 1024), d \div 1024)
\* float64(u) / float64(d) for a divisor d that divides Limb: exact, the
\* division by a power of two only changes the exponent
DivFloat(u, d) == Float(u.hi * (Limb \div d) + u.lo \div d, u.lo % d, d)

(***************************************************************************)
(* Errors, pointers, interface values (monitor.go, fetcher.go).            *)
(***************************************************************************)
NilErr == << >>

Errorf(msg, err) == <<msg>> \o err

\* *MemoryInfo / *DiskInfo (monitor.go); the two structs have the same fields
Info(pct, used, total) ==
    [isNil |-> FALSE, UsedPercent |-> pct, Used |-> used, Total |-> total]
NilInfo ==
    [isNil |-> TRUE, UsedPercent |-> Zero, Used |-> U64(0, 0), Total |-> U64(0, 0)]

\* interface{}: dynamic type and the value of that type
NilValue == [dyn |-> "nil", f |-> Zero, p |-> NilInfo]
FloatValue(f) == [dyn |-> "float64", f |-> f, p |-> NilInfo]
MemValue(p) == [dyn |-> "*MemoryInfo", f |-> Zero, p |-> p]
DiskValue(p) == [dyn |-> "*DiskInfo", f |-> Zero, p |-> p]

MetricResult(t, v, e) == [Type |-> t, Value |-> v, Error |-> e]

SystemStats(c, mu, mused, mtot, du, dused, dtot) ==
    [CPUUsage |-> c, MemoryUsage |-> mu, MemoryUsed |-> mused, MemoryTotal |-> mtot,
     DiskUsage |-> du, DiskUsed |-> dused, DiskTotal |-> dtot]
ZeroStats == SystemStats(Zero, Zero, Zero, Zero, Zero, Zero, Zero)

Kinds == {"cpu", "memory", "disk"}

(***************************************************************************)
(* Readings the sources can report.  Reading 1 is the scenario of the      *)
(* tests (75.5 %, 8/16 GiB at 60 %, 450/1000 GiB at 45 %); the others have *)
(* byte counts that are not whole gigabytes.                               *)
(***************************************************************************)
CPUReading(i) == Float(75 \div i, i % 2, 2)
MemReading(i) ==
    Info(Float(60 \div i, 0, 1), U64(8 \div i, ((i - 1) * (Limb \div 2)) % Limb), U64(16 \div i, 0))
DiskReading(i) ==
    Info(Float(45 \div i, 0, 1), U64(450 \div i, ((i - 1) * (Limb \div 4)) % Limb), U64(1000 \div i, 0))

CPUReadings == {CPUReading(i) : i \in 1..MaxReading}
MemReadings == {MemReading(i) : i \in 1..MaxReading}
DiskReadings == {DiskReading(i) : i \in 1..MaxReading}

(***************************************************************************)
(* The SystemMonitor implementations.                                      *)
(***************************************************************************)
\* fields of the implementation that is not in use
NoMock ==
    [CPUUsage |-> Zero, CPUError |-> NilErr, MemoryInfo |-> NilInfo,
     MemoryError |-> NilErr, DiskInfo |-> NilInfo, DiskError |-> NilErr]
NoProviders ==
    [cpu |-> [percentages |-> << >>, err |-> NilErr],
     mem |-> [vmStat |-> NilInfo, err |-> NilErr],
     disk |-> [usageStat |-> NilInfo, err |-> NilErr]]

\* MockSystemMonitor (fetcher_test.go): every combination of its six fields
MockSystemMonitors ==
    { [impl |-> "mock", mock |-> m, prov |-> NoProviders] :
        m \in [CPUUsage : CPUReadings, CPUError : {NilErr, <<"cpu error">>},
               MemoryInfo : MemReadings \cup {NilInfo},
               MemoryError : {NilErr, <<"memory error">>},
               DiskInfo : DiskReadings \cup {NilInfo},
               DiskError : {NilErr, <<"disk error">>}] }

\* GopsutilMonitor over injected providers (monitor.go).  A provider
\* returns a non-nil stat whenever its error is nil, as gopsutil does.
GopsutilMonitors ==
    { [impl |-> "gopsutil", mock |-> NoMock, prov |-> p] :
        p \in [cpu : [percentages : {<< >>} \cup {<<r>> : r \in CPUReadings}
                                    \cup {<<Zero, r>> : r \in CPUReadings},
                      err : {NilErr, <<"mock CPU error">>}],
               mem : [vmStat : MemReadings, err : {NilErr}]
                     \cup [vmStat : {NilInfo}, err : {<<"mock memory error">>}],
               disk : [usageStat : DiskReadings, err : {NilErr}]
                      \cup [usageStat : {NilInfo}, err : {<<"mock disk error">>}]] }

Monitors == MockSystemMonitors \cup GopsutilMonitors

\* result of a SystemMonitor call: the float64 or pointer, and the error
Ret(f, p, e) == [f |-> f, p |-> p, err |-> e]

\* GetCPUUsage without the check for an empty percentage set
GetCPUUsageNoEmptyCheck(m) ==
    IF m.impl = "mock"
    THEN IF m.mock.CPUError # NilErr
         THEN Ret(Zero, NilInfo, m.mock.CPUError)
         ELSE Ret(m.mock.CPUUsage, NilInfo, NilErr)
    ELSE IF m.prov.cpu.err # NilErr
         THEN Ret(Zero, NilInfo, Errorf("failed to get CPU usage", m.prov.cpu.err))
         ELSE IF Len(m.prov.cpu.percentages) = 0
              THEN Ret(Zero, NilInfo, NilErr)
              ELSE Ret(m.prov.cpu.percentages[1], NilInfo, NilErr)
GetCPUUsage(m) ==
    IF m.impl = "mock"
    THEN IF m.mock.CPUError # NilErr
         THEN Ret(Zero, NilInfo, m.mock.CPUError)
         ELSE Ret(m.mock.CPUUsage, NilInfo, NilErr)
    ELSE IF m.prov.cpu.err # NilErr
         THEN Ret(Zero, NilInfo, Errorf("failed to get CPU usage", m.prov.cpu.err))
         ELSE IF Len(m.prov.cpu.percentages) = 0
              THEN Ret(Zero, NilInfo, <<"no CPU usage data returned">>)
              ELSE Ret(m.prov.cpu.percentages[1], NilInfo, NilErr)

\* GetMemoryUsage handing the source's error on as it is
GetMemoryUsageUnwrapped(m) ==
    IF m.impl = "mock"
    THEN IF m.mock.MemoryError # NilErr
         THEN Ret(Zero, NilInfo, m.mock.MemoryError)
         ELSE Ret(Zero, m.mock.MemoryInfo, NilErr)
    ELSE IF m.prov.mem.err # NilErr
         THEN Ret(Zero, NilInfo, m.prov.mem.err)
         ELSE Ret(Zero, Info(m.prov.mem.vmStat.UsedPercent, m.prov.mem.vmStat.Used,
                             m.prov.mem.vmStat.Total), NilErr)
GetMemoryUsage(m) ==
    IF m.impl = "mock"
    THEN IF m.mock.MemoryError # NilErr
         THEN Ret(Zero, NilInfo, m.mock.MemoryError)
         ELSE Ret(Zero, m.mock.MemoryInfo, NilErr)
    ELSE IF m.prov.mem.err # NilErr
         THEN Ret(Zero, NilInfo, Errorf("failed to get memory usage", m.prov.mem.err))
         ELSE Ret(Zero, Info(m.prov.mem.vmStat.UsedPercent, m.prov.mem.vmStat.Used,
                             m.prov.mem.vmStat.Total), NilErr)

\* GetDiskUsage with Used and Total exchanged in the conversion
GetDiskUsageSwapped(m) ==
    IF m.impl = "mock"
    THEN IF m.mock.DiskError # NilErr
         THEN Ret(Zero, NilInfo, m.mock.DiskError)
         ELSE Ret(Zero, m.mock.DiskInfo, NilErr)
    ELSE IF m.prov.disk.err # NilErr
         THEN Ret(Zero, NilInfo, Errorf("failed to get disk usage for C:", m.prov.disk.err))
         ELSE Ret(Zero, Info(m.prov.disk.usageStat.UsedPercent, m.prov.disk.usageStat.Total,
                             m.prov.disk.usageStat.Used), NilErr)
GetDiskUsage(m) ==
    IF m.impl = "mock"
    THEN IF m.mock.DiskError # NilErr
         THEN Ret(Zero, NilInfo, m.mock.DiskError)
         ELSE Ret(Zero, m.mock.DiskInfo, NilErr)
    ELSE IF m.prov.disk.err # NilErr
         THEN Ret(Zero, NilInfo, Errorf("failed to get disk usage for C:", m.prov.disk.err))
         ELSE Ret(Zero, Info(m.prov.disk.usageStat.UsedPercent, m.prov.disk.usageStat.Used,
                             m.prov.disk.usageStat.Total), NilErr)

\* the provider call each fetcher makes
Call(k, m) ==
    CASE k = "cpu" -> GetCPUUsage(m)
      [] k = "memory" -> GetMemoryUsage(m)
      [] k = "disk" -> GetDiskUsage(m)

(***************************************************************************)
(* fetcher.go: the three fetchers.                                         *)
(***************************************************************************)
\* the MetricResult a fetcher builds from what its provider call returned
BoxValue(k, ret) ==
    CASE k = "cpu" -> FloatValue(ret.f)
      [] k = "memory" -> MemValue(ret.p)
      [] k = "disk" -> DiskValue(ret.p)

\* a disk fetcher pasted from the memory fetcher with its tag left behind
FetchResultMistagged(k, ret) ==
    LET t == IF k = "disk" THEN "memory" ELSE k
    IN IF ret.err # NilErr
       THEN MetricResult(t, NilValue, ret.err)
       ELSE MetricResult(t, BoxValue(k, ret), NilErr)
\* a fetcher that passes the returned value along with the error
FetchResultKeepsValue(k, ret) ==
    IF ret.err # NilErr
    THEN MetricResult(k, BoxValue(k, ret), ret.err)
    ELSE MetricResult(k, BoxValue(k, ret), NilErr)
FetchResult(k, ret) ==
    IF ret.err # NilErr
    THEN MetricResult(k, NilValue, ret.err)
    ELSE MetricResult(k, BoxValue(k, ret), NilErr)

NoRet == Ret(Zero, NilInfo, NilErr)

\* a provider call that gives up with an error instead of never returning
FetchCallTimeout(k) ==
    /\ ~crashed
    /\ pcFetch[k] = "call"
    /\ outcome' = [outcome EXCEPT
                     ![k] = IF k \in hangs THEN Ret(Zero, NilInfo, <<"timeout">>)
                            ELSE Call(k, monitor)]
    /\ pcFetch' = [pcFetch EXCEPT ![k] = "send"]
    /\ UNCHANGED <<sentinelVars, loopVars, answers, hangs, monitor, pcMain, pcWait, wg, results, closed, stats,
                   log, statsCh, emitted, consumed, sent, received, crashed>>
\* monitor.GetXxx(...): the provider call returns, unless it is one that
\* never does
FetchCall(k) ==
    /\ ~crashed
    /\ pcFetch[k] = "call"
    /\ k \notin hangs
    /\ outcome' = [outcome EXCEPT ![k] = Call(k, monitor)]
    /\ pcFetch' = [pcFetch EXCEPT ![k] = "send"]
    /\ UNCHANGED <<sentinelVars, loopVars, answers, hangs, monitor, pcMain, pcWait, wg, results, closed, stats, log,
                   statsCh, emitted, consumed, sent, received, crashed>>

\* the send on a results channel with room for one sample only
FetchSendSmallBuffer(k) ==
    /\ ~crashed
    /\ pcFetch[k] = "send"
    /\ closed \/ Len(results) < ChannelBuffer
    /\ IF closed
       THEN /\ crashed' = TRUE
            /\ UNCHANGED <<results, emitted, pcFetch>>
       ELSE /\ results' = Append(results, FetchResult(k, outcome[k]))
            /\ emitted' = [emitted EXCEPT ![k] = Append(@, FetchResult(k, outcome[k]))]
            /\ pcFetch' = [pcFetch EXCEPT ![k] = "defer"]
            /\ UNCHANGED crashed
    /\ UNCHANGED <<sentinelVars, loopVars, answers, hangs, monitor, pcMain, pcWait, wg, closed, stats, log, statsCh,
                   outcome, consumed, sent, received>>
\* results <- MetricResult{...}: blocks while the buffer is full, panics on
\* a closed channel
FetchSend(k) ==
    /\ ~crashed
    /\ pcFetch[k] = "send"
    /\ closed \/ Len(results) < ResultsBuffer
    /\ IF closed
       THEN /\ crashed' = TRUE
            /\ UNCHANGED <<results, emitted, pcFetch>>
       ELSE /\ results' = Append(results, FetchResult(k, outcome[k]))
            /\ emitted' = [emitted EXCEPT ![k] = Append(@, FetchResult(k, outcome[k]))]
            /\ pcFetch' = [pcFetch EXCEPT ![k] = "defer"]
            /\ UNCHANGED crashed
    /\ UNCHANGED <<sentinelVars, loopVars, answers, hangs, monitor, pcMain, pcWait, wg, closed, stats, log, statsCh,
                   outcome, consumed, sent, received>>

\* a fetcher that calls wg.Done() at the end of its success path only
FetchDoneNoDefer(k) ==
    /\ ~crashed
    /\ pcFetch[k] = "defer"
    /\ IF outcome[k].err # NilErr
       THEN UNCHANGED <<wg, crashed>>
       ELSE IF wg = 0
            THEN crashed' = TRUE /\ UNCHANGED wg
            ELSE wg' = wg - 1 /\ UNCHANGED crashed
    /\ pcFetch' = [pcFetch EXCEPT ![k] = "done"]
    /\ UNCHANGED <<sentinelVars, loopVars, answers, hangs, monitor, pcMain, pcWait, results, closed, stats, log, statsCh,
                   outcome, emitted, consumed, sent, received>>
\* defer wg.Done(): panics on a negative counter
FetchDone(k) ==
    /\ ~crashed
    /\ pcFetch[k] = "defer"
    /\ IF wg = 0
       THEN crashed' = TRUE /\ UNCHANGED wg
       ELSE wg' = wg - 1 /\ UNCHANGED crashed
    /\ pcFetch' = [pcFetch EXCEPT ![k] = "done"]
    /\ UNCHANGED <<sentinelVars, loopVars, answers, hangs, monitor, pcMain, pcWait, results, closed, stats, log, statsCh,
                   outcome, emitted, consumed, sent, received>>

fetchCPUMetric == FetchCall("cpu") \/ FetchSend("cpu") \/ FetchDone("cpu")
fetchMemoryMetric == FetchCall("memory") \/ FetchSend("memory") \/ FetchDone("memory")
fetchDiskMetric == FetchCall("disk") \/ FetchSend("disk") \/ FetchDone("disk")

(***************************************************************************)
(* fetcher.go: the goroutine that closes the results channel.              *)
(***************************************************************************)
\* a closer that goes on to close(results) without waiting for the fetchers
WaiterWaitSkipped ==
    /\ ~crashed
    /\ pcWait = "wait"
    /\ pcWait' = "close"
    /\ UNCHANGED <<sentinelVars, loopVars, answers, hangs, monitor, pcMain, pcFetch, wg, results, closed, stats, log,
                   statsCh, outcome, emitted, consumed, sent, received, crashed>>
\* wg.Wait()
WaiterWait ==
    /\ ~crashed
    /\ pcWait = "wait"
    /\ wg = 0
    /\ pcWait' = "close"
    /\ UNCHANGED <<sentinelVars, loopVars, answers, hangs, monitor, pcMain, pcFetch, wg, results, closed, stats, log,
                   statsCh, outcome, emitted, consumed, sent, received, crashed>>

\* close(results)
WaiterClose ==
    /\ ~crashed
    /\ pcWait = "close"
    /\ IF closed THEN crashed' = TRUE /\ UNCHANGED closed
                 ELSE closed' = TRUE /\ UNCHANGED crashed
    /\ pcWait' = "done"
    /\ UNCHANGED <<sentinelVars, loopVars, answers, hangs, monitor, pcMain, pcFetch, wg, results, stats, log, statsCh,
                   outcome, emitted, consumed, sent, received>>

(***************************************************************************)
(* fetcher.go: fetchSystemStats.                                           *)
(***************************************************************************)
\* the switch with unchecked type assertions, result.Value.(T): an
\* assertion that fails panics
MergeValueUnchecked(st, r) ==
    CASE r.Type = "cpu" ->
            IF r.Value.dyn # "float64" THEN [stats |-> st, panic |-> TRUE]
            ELSE [stats |-> [st EXCEPT !.CPUUsage = r.Value.f], panic |-> FALSE]
      [] r.Type = "memory" ->
            IF r.Value.dyn # "*MemoryInfo" \/ r.Value.p.isNil
            THEN [stats |-> st, panic |-> TRUE]
            ELSE [stats |-> [st EXCEPT
                               !.MemoryUsage = r.Value.p.UsedPercent,
                               !.MemoryUsed = DivFloat(r.Value.p.Used, BytesToGB),
                               !.MemoryTotal = DivFloat(r.Value.p.Total, BytesToGB)],
                  panic |-> FALSE]
      [] r.Type = "disk" ->
            IF r.Value.dyn # "*DiskInfo" \/ r.Value.p.isNil
            THEN [stats |-> st, panic |-> TRUE]
            ELSE [stats |-> [st EXCEPT
                               !.DiskUsage = r.Value.p.UsedPercent,
                               !.DiskUsed = DivFloat(r.Value.p.Used, BytesToGB),
                               !.DiskTotal = DivFloat(r.Value.p.Total, BytesToGB)],
                  panic |-> FALSE]
      [] OTHER -> [stats |-> st, panic |-> FALSE]
\* switch result.Type { ... }: a successful result goes into the fields of
\* its kind; the type assertion on a typed nil pointer succeeds and the
\* field access through it panics
MergeValue(st, r) ==
    CASE r.Type = "cpu" /\ r.Value.dyn = "float64" ->
            [stats |-> [st EXCEPT !.CPUUsage = r.Value.f], panic |-> FALSE]
      [] r.Type = "memory" /\ r.Value.dyn = "*MemoryInfo" ->
            IF r.Value.p.isNil
            THEN [stats |-> st, panic |-> TRUE]
            ELSE [stats |-> [st EXCEPT
                               !.MemoryUsage = r.Value.p.UsedPercent,
                               !.MemoryUsed = DivFloat(r.Value.p.Used, BytesToGB),
                               !.MemoryTotal = DivFloat(r.Value.p.Total, BytesToGB)],
                  panic |-> FALSE]
      [] r.Type = "disk" /\ r.Value.dyn = "*DiskInfo" ->
            IF r.Value.p.isNil
            THEN [stats |-> st, panic |-> TRUE]
            ELSE [stats |-> [st EXCEPT
                               !.DiskUsage = r.Value.p.UsedPercent,
                               !.DiskUsed = DivFloat(r.Value.p.Used, BytesToGB),
                               !.DiskTotal = DivFloat(r.Value.p.Total, BytesToGB)],
                  panic |-> FALSE]
      [] OTHER -> [stats |-> st, panic |-> FALSE]

\* the log line of a failed result: its kind and its error
LogEntry(r) == [kind |-> r.Type, err |-> r.Error]

\* the loop body with an error branch that marks the failed CPU reading
\* with -1
ProcessResultSentinel(st, lg, r) ==
    IF r.Error # NilErr
    THEN [stats |-> IF r.Type = "cpu" THEN [st EXCEPT !.CPUUsage = Float(-1, 0, 1)] ELSE st,
          log |-> Append(lg, LogEntry(r)), panic |-> FALSE]
    ELSE [stats |-> MergeValue(st, r).stats, log |-> lg, panic |-> MergeValue(st, r).panic]
\* the loop body with an error branch that starts the snapshot afresh
ProcessResultReset(st, lg, r) ==
    IF r.Error # NilErr
    THEN [stats |-> ZeroStats, log |-> Append(lg, LogEntry(r)), panic |-> FALSE]
    ELSE [stats |-> MergeValue(st, r).stats, log |-> lg, panic |-> MergeValue(st, r).panic]
\* the loop body with an error branch that does not log
ProcessResultSilent(st, lg, r) ==
    IF r.Error # NilErr
    THEN [stats |-> st, log |-> lg, panic |-> FALSE]
    ELSE [stats |-> MergeValue(st, r).stats, log |-> lg, panic |-> MergeValue(st, r).panic]
\* one iteration of the body of "for result := range results"
ProcessResult(st, lg, r) ==
    IF r.Error # NilErr
    THEN [stats |-> st, log |-> Append(lg, LogEntry(r)), panic |-> FALSE]
    ELSE [stats |-> MergeValue(st, r).stats, log |-> lg, panic |-> MergeValue(st, r).panic]

\* the set-up with wg.Add one short of the number of fetchers
MainStartAddTwo ==
    /\ ~crashed
    /\ pcMain = "start"
    /\ stats' = ZeroStats
    /\ results' = << >>
    /\ closed' = FALSE
    /\ wg' = MetricCount - 1
    /\ pcMain' = "go_cpu"
    /\ UNCHANGED <<sentinelVars, loopVars, answers, hangs, monitor, pcFetch, pcWait, log, statsCh, outcome, emitted,
                   consumed, sent, received, crashed>>
\* var stats; var wg; results := make(chan MetricResult, ResultsBuffer);
\* wg.Add(MetricCount)
MainStart ==
    /\ ~crashed
    /\ pcMain = "start"
    /\ stats' = ZeroStats
    /\ results' = << >>
    /\ closed' = FALSE
    /\ wg' = MetricCount
    /\ pcMain' = "go_cpu"
    /\ UNCHANGED <<sentinelVars, loopVars, answers, hangs, monitor, pcFetch, pcWait, log, statsCh, outcome, emitted,
                   consumed, sent, received, crashed>>

\* the set-up that runs each fetcher to its end before it starts the next
MainGoInTurn(k, next) ==
    /\ ~crashed
    /\ pcMain = "go_" \o k
    /\ \A j \in Kinds : pcFetch[j] \in {"unborn", "done"}
    /\ pcFetch' = [pcFetch EXCEPT ![k] = "call"]
    /\ pcMain' = next
    /\ UNCHANGED <<sentinelVars, loopVars, answers, hangs, monitor, pcWait, wg, results, closed, stats,
                   log, statsCh, outcome, emitted, consumed, sent, received, crashed>>
\* go fetchCPUMetric / fetchMemoryMetric / fetchDiskMetric
MainGo(k, next) ==
    /\ ~crashed
    /\ pcMain = "go_" \o k
    /\ pcFetch' = [pcFetch EXCEPT ![k] = "call"]
    /\ pcMain' = next
    /\ UNCHANGED <<sentinelVars, loopVars, answers, hangs, monitor, pcWait, wg, results, closed, stats, log, statsCh,
                   outcome, emitted, consumed, sent, received, crashed>>

\* go func() { wg.Wait(); close(results) }()
MainGoWait ==
    /\ ~crashed
    /\ pcMain = "go_wait"
    /\ pcWait' = "wait"
    /\ pcMain' = "range"
    /\ UNCHANGED <<sentinelVars, loopVars, answers, hangs, monitor, pcFetch, wg, results, closed, stats, log, statsCh,
                   outcome, emitted, consumed, sent, received, crashed>>

\* for result := range results { ... }: receive and process one result
MainReceive ==
    /\ ~crashed
    /\ pcMain = "range"
    /\ Len(results) > 0
    /\ LET r == Head(results)
           o == ProcessResult(stats, log, r)
       IN /\ results' = Tail(results)
          /\ consumed' = Append(consumed, r)
          /\ stats' = o.stats
          /\ log' = o.log
          /\ crashed' = o.panic
    /\ UNCHANGED <<sentinelVars, loopVars, answers, hangs, monitor, pcMain, pcFetch, pcWait, wg, closed, statsCh,
                   outcome, emitted, sent, received>>

\* a loop that is left as soon as two results have been processed
MainRangeEndAfterTwo ==
    /\ ~crashed
    /\ pcMain = "range"
    /\ Len(consumed) = 2
    /\ pcMain' = "send"
    /\ UNCHANGED <<sentinelVars, loopVars, answers, hangs, monitor, pcFetch, pcWait, wg, results, closed,
                   stats, log, statsCh, outcome, emitted, consumed, sent, received, crashed>>
\* the range loop ends: the channel is closed and drained
MainRangeEnd ==
    /\ ~crashed
    /\ pcMain = "range"
    /\ Len(results) = 0
    /\ closed
    /\ pcMain' = "send"
    /\ UNCHANGED <<sentinelVars, loopVars, answers, hangs, monitor, pcFetch, pcWait, wg, results, closed, stats, log,
                   statsCh, outcome, emitted, consumed, sent, received, crashed>>

\* the send on an unbuffered statsCh: it waits for a receiver
MainSendUnbuffered ==
    /\ ~crashed
    /\ pcMain = "send"
    /\ Len(statsCh) < 0
    /\ statsCh' = Append(statsCh, stats)
    /\ sent' = sent + 1
    /\ pcMain' = "returned"
    /\ UNCHANGED <<sentinelVars, loopVars, answers, hangs, monitor, pcFetch, pcWait, wg, results, closed, stats, log,
                   outcome, emitted, consumed, received, crashed>>
\* statsCh <- stats
MainSend ==
    /\ ~crashed
    /\ pcMain = "send"
    /\ Len(statsCh) < ChannelBuffer
    /\ statsCh' = Append(statsCh, stats)
    /\ sent' = sent + 1
    /\ pcMain' = "returned"
    /\ UNCHANGED <<sentinelVars, loopVars, answers, hangs, monitor, pcFetch, pcWait, wg, results, closed, stats, log,
                   outcome, emitted, consumed, received, crashed>>

fetchSystemStats ==
    \/ MainStart
    \/ MainGo("cpu", "go_memory")
    \/ MainGo("memory", "go_disk")
    \/ MainGo("disk", "go_wait")
    \/ MainGoWait
    \/ MainReceive
    \/ MainRangeEnd
    \/ MainSend

(***************************************************************************)
(* The caller (updateDisplay in ui.go, the tests): stats := <-statsCh.     *)
(***************************************************************************)
ReceiveStats ==
    /\ ~crashed
    /\ Len(statsCh) > 0
    /\ received' = Append(received, Head(statsCh))
    /\ statsCh' = Tail(statsCh)
    /\ UNCHANGED <<sentinelVars, loopVars, answers, hangs, monitor, pcMain, pcFetch, pcWait, wg, results, closed, stats,
                   log, outcome, emitted, consumed, sent, crashed>>

(***************************************************************************)
(* One collection round over any monitor.                                  *)
(***************************************************************************)
(***************************************************************************)
(* ui.go: the widgets and what updateDisplay and setupUIWithSize write     *)
(* into them.  A formatted number is [set, whole, tenth], the text         *)
(* "whole.tenth"; set is FALSE for the empty string.                       *)
(***************************************************************************)
ScreenThirds == 3
ScreenHalves == 2
DecimalPlaces == 1

Rect(x1, y1, x2, y2) == [x1 |-> x1, y1 |-> y1, x2 |-> x2, y2 |-> y2]

NoText == [set |-> FALSE, whole |-> 0, tenth |-> 0]
NoRows ==
    [set |-> FALSE, CPU |-> NoText, Memory |-> <<NoText, NoText, NoText>>,
     Disk |-> <<NoText, NoText, NoText>>]

\* widgets.NewGauge(), widgets.NewList()
NewGauge ==
    [Title |-> "", Rect |-> Rect(0, 0, 0, 0), BarColor |-> "default",
     Percent |-> 0, Label |-> NoText]
NewList ==
    [Title |-> "", Rect |-> Rect(0, 0, 0, 0), TextStyle |-> "default",
     WrapText |-> TRUE, Rows |-> NoRows]

createWidgets ==
    [cpuGauge |-> NewGauge, memoryGauge |-> NewGauge, diskGauge |-> NewGauge,
     infoList |-> NewList]

\* int(f) of a float64 that is not negative: the fraction is dropped
Truncate(f) == f.ip

\* fmt.Sprintf("%.*f", DecimalPlaces, f): the decimal digits of f, which
\* holds its value exactly, rounded to one place with ties to the even digit
Sprintf(f) ==
    LET q == (f.fn * 10) \div f.fd
        r == (f.fn * 10) % f.fd
        t == f.ip * 10 + q
        n == IF 2 * r > f.fd \/ (2 * r = f.fd /\ t % 2 = 1) THEN t + 1 ELSE t
    IN [set |-> TRUE, whole |-> n \div 10, tenth |-> n % 10]

\* infoList.Rows of updateDisplay: the numbers of the CPU, memory and disk
\* rows (the clock row and the fixed rows carry no data of the snapshot)
Rows(st) ==
    [set |-> TRUE,
     CPU |-> Sprintf(st.CPUUsage),
     Memory |-> <<Sprintf(st.MemoryUsage), Sprintf(st.MemoryUsed), Sprintf(st.MemoryTotal)>>,
     Disk |-> <<Sprintf(st.DiskUsage), Sprintf(st.DiskUsed), Sprintf(st.DiskTotal)>>]

\* an update that leaves a gauge as it is when the new value is 0
SetDataKeepStale(w, st) ==
    [w EXCEPT !.cpuGauge.Percent = IF st.CPUUsage = Zero THEN @ ELSE Truncate(st.CPUUsage),
              !.cpuGauge.Label = IF st.CPUUsage = Zero THEN @ ELSE Sprintf(st.CPUUsage),
              !.memoryGauge.Percent =
                  IF st.MemoryUsage = Zero THEN @ ELSE Truncate(st.MemoryUsage),
              !.memoryGauge.Label =
                  IF st.MemoryUsage = Zero THEN @ ELSE Sprintf(st.MemoryUsage),
              !.diskGauge.Percent = IF st.DiskUsage = Zero THEN @ ELSE Truncate(st.DiskUsage),
              !.diskGauge.Label = IF st.DiskUsage = Zero THEN @ ELSE Sprintf(st.DiskUsage),
              !.infoList.Rows = Rows(st)]
\* updateDisplay after the receive: gauges and rows take the snapshot
SetData(w, st) ==
    [w EXCEPT !.cpuGauge.Percent = Truncate(st.CPUUsage),
              !.cpuGauge.Label = Sprintf(st.CPUUsage),
              !.memoryGauge.Percent = Truncate(st.MemoryUsage),
              !.memoryGauge.Label = Sprintf(st.MemoryUsage),
              !.diskGauge.Percent = Truncate(st.DiskUsage),
              !.diskGauge.Label = Sprintf(st.DiskUsage),
              !.infoList.Rows = Rows(st)]

\* a layout pass that also creates the widgets anew
setupUIWithSizeFresh(w, width, height) ==
    [cpuGauge |-> [NewGauge EXCEPT
        !.Title = "CPU Usage",
        !.Rect = Rect(0, 0, width \div ScreenThirds, height \div ScreenHalves),
        !.BarColor = "yellow"],
     memoryGauge |-> [NewGauge EXCEPT
        !.Title = "Memory Usage",
        !.Rect = Rect(width \div ScreenThirds, 0, (2 * width) \div ScreenThirds,
                      height \div ScreenHalves),
        !.BarColor = "green"],
     diskGauge |-> [NewGauge EXCEPT
        !.Title = "Disk Usage",
        !.Rect = Rect((2 * width) \div ScreenThirds, 0, width, height \div ScreenHalves),
        !.BarColor = "red"],
     infoList |-> [NewList EXCEPT
        !.Title = "System Information",
        !.Rect = Rect(0, height \div ScreenHalves, width, height),
        !.TextStyle = "white",
        !.WrapText = FALSE]]
\* setupUIWithSize: titles, rectangles and styles for a width and height
setupUIWithSize(w, width, height) ==
    [w EXCEPT
        !.cpuGauge.Title = "CPU Usage",
        !.cpuGauge.Rect = Rect(0, 0, width \div ScreenThirds, height \div ScreenHalves),
        !.cpuGauge.BarColor = "yellow",
        !.memoryGauge.Title = "Memory Usage",
        !.memoryGauge.Rect = Rect(width \div ScreenThirds, 0, (2 * width) \div ScreenThirds,
                                  height \div ScreenHalves),
        !.memoryGauge.BarColor = "green",
        !.diskGauge.Title = "Disk Usage",
        !.diskGauge.Rect = Rect((2 * width) \div ScreenThirds, 0, width,
                                height \div ScreenHalves),
        !.diskGauge.BarColor = "red",
        !.infoList.Title = "System Information",
        !.infoList.Rect = Rect(0, height \div ScreenHalves, width, height),
        !.infoList.TextStyle = "white",
        !.infoList.WrapText = FALSE]

\* what ui.Render has drawn last: nothing, or a copy of the widgets
Blank == [drawn |-> FALSE, frame |-> createWidgets]
Render(w) == [drawn |-> TRUE, frame |-> w]

\* ui.TerminalDimensions() at start-up and the size of a later resize
Size(width, height) == [Width |-> width, Height |-> height]
InitialSize == Size(80, 24)
NewSize == Size(121, 41)

\* setupUI: the layout for the dimensions of the terminal
setupUI(w) == setupUIWithSize(w, InitialSize.Width, InitialSize.Height)
(***************************************************************************)
(* app.go: the App.  The providers of its GopsutilMonitor answer anew in   *)
(* every round: the CPU source with any reading or an error, the memory    *)
(* source with its first reading or an error, at most one of them failing, *)
(* or one provider call of the round never returns.                        *)
(***************************************************************************)
AppMonitors ==
    { m \in GopsutilMonitors :
        /\ m.prov.disk.usageStat = DiskReading(1)
        /\ m.prov.mem.vmStat \in {MemReading(1), NilInfo}
        /\ m.prov.cpu.percentages \in {<<r>> : r \in CPUReadings}
        /\ m.prov.cpu.err # NilErr => m.prov.cpu.percentages = <<CPUReading(1)>>
        /\ m.prov.mem.err # NilErr =>
             m.prov.cpu.err = NilErr /\ m.prov.cpu.percentages = <<CPUReading(1)>> }

\* the round in which every source answers with its first reading
AllWell ==
    CHOOSE m \in AppMonitors :
        /\ m.prov.cpu.err = NilErr /\ m.prov.cpu.percentages = <<CPUReading(1)>>
        /\ m.prov.mem.err = NilErr

HangSets == {{}} \cup {{k} : k \in Kinds}

\* what a round of the App can meet: the answers of the providers and the
\* calls that do not return (with the other sources well)
AppAnswers ==
    {<<m, {}>> : m \in AppMonitors} \cup {<<AllWell, h>> : h \in HangSets}

\* the rounds in which every provider call returns: all sources well, or
\* the CPU source failing
ReturningAnswers ==
    {a \in AppAnswers :
        /\ a[2] = {}
        /\ a[1].prov.mem.err = NilErr
        /\ a[1].prov.cpu.percentages = <<CPUReading(1)>>}

\* ui.Event: its ID and, for a resize, the new size
Event(id, payload) == [ID |-> id, Payload |-> payload]
NoPayload == Size(0, 0)
NoEvent == Event("", NoPayload)
Events ==
    {Event("q", NoPayload), Event("<C-c>", NoPayload), Event("<Resize>", NewSize),
     Event("a", NoPayload)}

\* a resize handler that lays out and leaves the drawing to the next tick
handleResizeNoRender(w, e) ==
    [widgets |-> setupUIWithSize(w, e.Payload.Width, e.Payload.Height), render |-> FALSE]
\* handleResize: the layout for the new size, then ui.Render
handleResize(w, e) ==
    [widgets |-> setupUIWithSize(w, e.Payload.Width, e.Payload.Height), render |-> TRUE]

\* an event handler that asks for the exit on every key
handleUIEventAnyKeyQuits(w, e) ==
    CASE e.ID = "<Resize>" ->
            [exit |-> FALSE, widgets |-> handleResize(w, e).widgets,
             render |-> handleResize(w, e).render]
      [] OTHER -> [exit |-> TRUE, widgets |-> w, render |-> FALSE]
\* an event handler that never asks for the exit
handleUIEventNoQuit(w, e) ==
    CASE e.ID = "<Resize>" ->
            [exit |-> FALSE, widgets |-> handleResize(w, e).widgets,
             render |-> handleResize(w, e).render]
      [] OTHER -> [exit |-> FALSE, widgets |-> w, render |-> FALSE]
\* handleUIEvent: whether to exit, the widgets afterwards, whether it rendered
handleUIEvent(w, e) ==
    CASE e.ID \in {"q", "<C-c>"} -> [exit |-> TRUE, widgets |-> w, render |-> FALSE]
      [] e.ID = "<Resize>" ->
            [exit |-> FALSE, widgets |-> handleResize(w, e).widgets,
             render |-> handleResize(w, e).render]
      [] OTHER -> [exit |-> FALSE, widgets |-> w, render |-> FALSE]

\* a newApp that makes the ticker and the event channel before ui.Init()
NewAppTickerFirst ==
    /\ ~crashed
    /\ pcApp = "main"
    /\ ticker' = "running"
    /\ polling' = TRUE
    /\ \/ /\ pcApp' = "init_failed"
          /\ UNCHANGED <<uiState, widgets>>
       \/ /\ uiState' = "on"
          /\ widgets' = setupUI(createWidgets)
          /\ pcApp' = "run"
    /\ UNCHANGED <<sentinelVars, roundVars, tickC, uiEvent, screen, quitSeen>>
\* newApp: ui.Init() fails and newApp returns the error, or it succeeds and
\* newApp creates the monitor, the widgets with their layout, the ticker
\* and the event channel
NewApp ==
    /\ ~crashed
    /\ pcApp = "main"
    /\ \/ /\ pcApp' = "init_failed"
          /\ UNCHANGED <<uiState, polling, ticker, widgets>>
       \/ /\ uiState' = "on"
          /\ widgets' = setupUI(createWidgets)
          /\ ticker' = "running"
          /\ polling' = TRUE
          /\ pcApp' = "run"
    /\ UNCHANGED <<sentinelVars, roundVars, tickC, uiEvent, screen, quitSeen>>

\* updateDisplay: statsCh := make(chan SystemStats, ChannelBuffer);
\* go fetchSystemStats(monitor, statsCh)
GoFetchSystemStats ==
    /\ \E a \in answers :
          /\ monitor' = a[1]
          /\ hangs' = a[2]
    /\ pcMain' = "start"
    /\ pcFetch' = [k \in Kinds |-> "unborn"]
    /\ pcWait' = "unborn"
    /\ wg' = 0
    /\ results' = << >>
    /\ closed' = FALSE
    /\ stats' = ZeroStats
    /\ log' = << >>
    /\ statsCh' = << >>
    /\ outcome' = [k \in Kinds |-> NoRet]
    /\ emitted' = [k \in Kinds |-> << >>]
    /\ consumed' = << >>
    /\ sent' = 0
    /\ received' = << >>
    /\ UNCHANGED <<crashed, answers, sentinelVars>>

\* a run that enters its loop without the initial update
RunInitialUpdateSkipped ==
    /\ ~crashed
    /\ pcApp = "run"
    /\ pcApp' = "select"
    /\ UNCHANGED <<sentinelVars, roundVars, uiState, polling, ticker, tickC, uiEvent, widgets, screen, quitSeen>>
\* run: the initial app.updateDisplay() starts its round
RunInitialUpdate ==
    /\ ~crashed
    /\ pcApp = "run"
    /\ GoFetchSystemStats
    /\ pcApp' = "update"
    /\ UNCHANGED <<uiState, polling, ticker, tickC, uiEvent, widgets, screen, quitSeen>>

\* a select that takes a tick only when no UI event is ready
SelectTickAfterEvents ==
    /\ ~crashed
    /\ pcApp = "select"
    /\ uiEvent = NoEvent
    /\ tickC = 1
    /\ tickC' = 0
    /\ GoFetchSystemStats
    /\ pcApp' = "update"
    /\ UNCHANGED <<uiState, polling, ticker, uiEvent, widgets, screen, quitSeen>>
\* a tick handler that does not wait for the round before it
SelectTickEager ==
    /\ ~crashed
    /\ pcApp \in {"select", "update", "render"}
    /\ tickC = 1
    /\ tickC' = 0
    /\ GoFetchSystemStats
    /\ pcApp' = "update"
    /\ UNCHANGED <<uiState, polling, ticker, uiEvent, widgets, screen, quitSeen>>
\* a tick handler that takes the tick and collects nothing
SelectTickIdle ==
    /\ ~crashed
    /\ pcApp = "select"
    /\ tickC = 1
    /\ tickC' = 0
    /\ UNCHANGED <<sentinelVars, roundVars, pcApp, uiState, polling, ticker, uiEvent, widgets,
                   screen, quitSeen>>
\* case <-app.ticker.C: app.updateDisplay() starts its round
SelectTick ==
    /\ ~crashed
    /\ pcApp = "select"
    /\ tickC = 1
    /\ tickC' = 0
    /\ GoFetchSystemStats
    /\ pcApp' = "update"
    /\ UNCHANGED <<uiState, polling, ticker, uiEvent, widgets, screen, quitSeen>>

\* updateDisplay: stats := <-statsCh, then the gauges and the rows are set
UpdateReceive ==
    /\ ~crashed
    /\ pcApp = "update"
    /\ Len(statsCh) > 0
    /\ received' = Append(received, Head(statsCh))
    /\ statsCh' = Tail(statsCh)
    /\ widgets' = SetData(widgets, Head(statsCh))
    /\ pcApp' = "render"
    /\ UNCHANGED <<monitor, pcMain, pcFetch, pcWait, wg, results, closed, stats,
                   log, outcome, emitted, consumed, sent, crashed, hangs, answers>>
    /\ UNCHANGED <<uiState, polling, ticker, tickC, uiEvent, screen, quitSeen, sentinelVars>>

\* updateDisplay: ui.Render(...), and back to the select
UpdateRender ==
    /\ ~crashed
    /\ pcApp = "render"
    /\ screen' = Render(widgets)
    /\ pcApp' = "select"
    /\ UNCHANGED <<sentinelVars, roundVars, uiState, polling, ticker, tickC, uiEvent, widgets, quitSeen>>

\* an event case that is also served while updateDisplay is at work
SelectUIEventDuringRound ==
    /\ ~crashed
    /\ pcApp \in {"select", "update", "render"}
    /\ uiEvent # NoEvent
    /\ LET h == handleUIEvent(widgets, uiEvent)
       IN /\ widgets' = h.widgets
          /\ screen' = IF h.render THEN Render(h.widgets) ELSE screen
          /\ pcApp' = IF h.exit THEN "return" ELSE pcApp
    /\ quitSeen' = (quitSeen \/ uiEvent.ID \in {"q", "<C-c>"})
    /\ uiEvent' = NoEvent
    /\ UNCHANGED <<sentinelVars, roundVars, uiState, polling, ticker, tickC>>
\* a select that looks at the event channel only when no tick is ready
SelectUIEventAfterTicks ==
    /\ ~crashed
    /\ pcApp = "select"
    /\ tickC = 0
    /\ uiEvent # NoEvent
    /\ LET h == handleUIEvent(widgets, uiEvent)
       IN /\ widgets' = h.widgets
          /\ screen' = IF h.render THEN Render(h.widgets) ELSE screen
          /\ pcApp' = IF h.exit THEN "return" ELSE "select"
    /\ quitSeen' = (quitSeen \/ uiEvent.ID \in {"q", "<C-c>"})
    /\ uiEvent' = NoEvent
    /\ UNCHANGED <<sentinelVars, roundVars, uiState, polling, ticker, tickC>>
\* case e := <-app.uiEvents: handleUIEvent(e), and return if it says so
SelectUIEvent ==
    /\ ~crashed
    /\ pcApp = "select"
    /\ uiEvent # NoEvent
    /\ LET h == handleUIEvent(widgets, uiEvent)
       IN /\ widgets' = h.widgets
          /\ screen' = IF h.render THEN Render(h.widgets) ELSE screen
          /\ pcApp' = IF h.exit THEN "return" ELSE "select"
    /\ quitSeen' = (quitSeen \/ uiEvent.ID \in {"q", "<C-c>"})
    /\ uiEvent' = NoEvent
    /\ UNCHANGED <<sentinelVars, roundVars, uiState, polling, ticker, tickC>>

run == RunInitialUpdate \/ SelectTick \/ UpdateReceive \/ UpdateRender \/ SelectUIEvent

\* a clean-up that closes the UI and leaves the ticker running
cleanupUIOnly ==
    /\ ~crashed
    /\ pcApp = "return"
    /\ uiState' = "closed"
    /\ polling' = FALSE
    /\ pcApp' = "exited"
    /\ UNCHANGED <<sentinelVars, roundVars, ticker, tickC, uiEvent, widgets, screen, quitSeen>>
\* cleanup (the deferred calls of main): ticker.Stop() and ui.Close(), after
\* which the program is left
cleanup ==
    /\ ~crashed
    /\ pcApp = "return"
    /\ ticker' = IF ticker # "nil" THEN "stopped" ELSE ticker
    /\ uiState' = "closed"
    /\ polling' = FALSE
    /\ pcApp' = "exited"
    /\ UNCHANGED <<sentinelVars, roundVars, tickC, uiEvent, widgets, screen, quitSeen>>

\* the ticker sends on its channel of capacity 1; a tick that finds the
\* channel full is dropped
Tick ==
    /\ ~crashed
    /\ pcApp # "exited"
    /\ ticker = "running"
    /\ tickC = 0
    /\ tickC' = 1
    /\ UNCHANGED <<sentinelVars, roundVars, pcApp, uiState, polling, ticker, uiEvent, widgets,
                   screen, quitSeen>>

\* the terminal offers its next event on the unbuffered event channel
UIEventArrives ==
    /\ ~crashed
    /\ polling
    /\ uiEvent = NoEvent
    /\ uiEvent' \in Events
    /\ UNCHANGED <<sentinelVars, roundVars, pcApp, uiState, polling, ticker, tickC, widgets,
                   screen, quitSeen>>

\* the older collector is not in use
NoSentinel == cpuCh = << >> /\ memCh = << >> /\ diskCh = << >>

\* the dispatch loop is not in use
NoLoop ==
    /\ pcApp = "none"
    /\ uiState = "off"
    /\ polling = FALSE
    /\ ticker = "nil"
    /\ tickC = 0
    /\ uiEvent = NoEvent
    /\ widgets = createWidgets
    /\ screen = Blank
    /\ quitSeen = FALSE
Init ==
    /\ monitor \in Monitors
    /\ pcMain = "start"
    /\ pcFetch = [k \in Kinds |-> "unborn"]
    /\ pcWait = "unborn"
    /\ wg = 0
    /\ results = << >>
    /\ closed = FALSE
    /\ stats = ZeroStats
    /\ log = << >>
    /\ statsCh = << >>
    /\ outcome = [k \in Kinds |-> NoRet]
    /\ emitted = [k \in Kinds |-> << >>]
    /\ consumed = << >>
    /\ sent = 0
    /\ received = << >>
    /\ crashed = FALSE
    /\ hangs = {}
    /\ answers = {}
    /\ NoLoop
    /\ NoSentinel

Next ==
    \/ fetchSystemStats
    \/ fetchCPUMetric
    \/ fetchMemoryMetric
    \/ fetchDiskMetric
    \/ WaiterWait
    \/ WaiterClose
    \/ ReceiveStats

Spec == Init /\ [][Next]_vars

\* every goroutine that can take a step eventually does (Go's scheduler)
FairSpec ==
    /\ Spec
    /\ WF_vars(fetchSystemStats)
    /\ WF_vars(fetchCPUMetric)
    /\ WF_vars(fetchMemoryMetric)
    /\ WF_vars(fetchDiskMetric)
    /\ WF_vars(WaiterWait \/ WaiterClose)
    /\ WF_vars(ReceiveStats)

(***************************************************************************)
(* The program: newApp, run and cleanup, with the ticker and the terminal  *)
(* as its environment.                                                     *)
(***************************************************************************)
(***************************************************************************)
(* One collection round over a mock monitor whose byte counts are whole    *)
(* gigabytes (TestFetchSystemStats in fetcher_test.go sets the mock up     *)
(* with 8 and 16 GiB of memory and 450 and 1000 GiB of disk).              *)
(***************************************************************************)
\* largest number of gigabytes in the range that is tried in full
MaxGB == 8

\* the gigabyte counts of the test
TestGB == {8, 16, 450, 1000}

WholeGB == (0..MaxGB) \cup TestGB

\* the mock with mu of mt GiB of memory and du of dt GiB of disk in use
GBMonitor(mu, mt, du, dt) ==
    [impl |-> "mock",
     mock |-> [CPUUsage |-> CPUReading(1), CPUError |-> NilErr,
               MemoryInfo |-> Info(Float(60, 0, 1), U64(mu, 0), U64(mt, 0)),
               MemoryError |-> NilErr,
               DiskInfo |-> Info(Float(45, 0, 1), U64(du, 0), U64(dt, 0)),
               DiskError |-> NilErr],
     prov |-> NoProviders]

GBMonitors ==
    {GBMonitor(p[1], p[2], p[1], p[2]) : p \in {q \in WholeGB \X WholeGB : q[1] <= q[2]}}
    \cup {GBMonitor(8, 16, 450, 1000)}

GBInit ==
    /\ monitor \in GBMonitors
    /\ pcMain = "start"
    /\ pcFetch = [k \in Kinds |-> "unborn"]
    /\ pcWait = "unborn"
    /\ wg = 0
    /\ results = << >>
    /\ closed = FALSE
    /\ stats = ZeroStats
    /\ log = << >>
    /\ statsCh = << >>
    /\ outcome = [k \in Kinds |-> NoRet]
    /\ emitted = [k \in Kinds |-> << >>]
    /\ consumed = << >>
    /\ sent = 0
    /\ received = << >>
    /\ crashed = FALSE
    /\ hangs = {}
    /\ answers = {}
    /\ NoLoop
    /\ NoSentinel

GBSpec == GBInit /\ [][Next]_vars
AppStart ==
    /\ monitor = AllWell
    /\ pcMain = "unborn"
    /\ pcFetch = [k \in Kinds |-> "unborn"]
    /\ pcWait = "unborn"
    /\ wg = 0
    /\ results = << >>
    /\ closed = FALSE
    /\ stats = ZeroStats
    /\ log = << >>
    /\ statsCh = << >>
    /\ outcome = [k \in Kinds |-> NoRet]
    /\ emitted = [k \in Kinds |-> << >>]
    /\ consumed = << >>
    /\ sent = 0
    /\ received = << >>
    /\ crashed = FALSE
    /\ hangs = {}
    /\ pcApp = "main"
    /\ uiState = "off"
    /\ polling = FALSE
    /\ ticker = "nil"
    /\ tickC = 0
    /\ uiEvent = NoEvent
    /\ widgets = createWidgets
    /\ screen = Blank
    /\ quitSeen = FALSE
    /\ NoSentinel

AppInit == AppStart /\ answers = AppAnswers

AppNext ==
    \/ NewApp
    \/ run
    \/ cleanup
    \/ fetchSystemStats
    \/ fetchCPUMetric
    \/ fetchMemoryMetric
    \/ fetchDiskMetric
    \/ WaiterWait
    \/ WaiterClose
    \/ Tick
    \/ UIEventArrives

AppSpec == AppInit /\ [][AppNext]_vars
\* Go's scheduler lets every goroutine that can take a step take one, and a
\* select with several ready cases picks among them at random: a case that
\* is ready again and again is picked at some point.  The ticker and the
\* terminal are free to produce ticks and events or not.
AppFairness ==
    /\ WF_vars(fetchSystemStats)
    /\ WF_vars(fetchCPUMetric)
    /\ WF_vars(fetchMemoryMetric)
    /\ WF_vars(fetchDiskMetric)
    /\ WF_vars(WaiterWait \/ WaiterClose)
    /\ WF_vars(NewApp)
    /\ WF_vars(RunInitialUpdate \/ UpdateReceive \/ UpdateRender)
    /\ SF_vars(SelectUIEvent)
    /\ SF_vars(SelectTick)
    /\ WF_vars(cleanup)

\* the program in a world whose provider calls all return
ReturningInit == AppStart /\ answers = ReturningAnswers

FairReturningSpec == ReturningInit /\ [][AppNext]_vars /\ AppFairness
(***************************************************************************)
(* The aggregation loop of fetchSystemStats over any three samples: the    *)
(* fetchers have ended and the channel is closed with three MetricResult   *)
(* values in it, of any Type and with a Value of any dynamic type.         *)
(***************************************************************************)
SampleTypes == Kinds \cup {"gpu"}
SampleValues ==
    {NilValue, FloatValue(CPUReading(1)), MemValue(MemReading(1)), DiskValue(DiskReading(1)),
     MemValue(NilInfo)}
Samples ==
    {MetricResult(t, v, NilErr) : t \in SampleTypes, v \in SampleValues}
        \cup {MetricResult(t, NilValue, <<"sample error">>) : t \in SampleTypes}

AggregateInit ==
    /\ monitor = AllWell
    /\ pcMain = "range"
    /\ pcFetch = [k \in Kinds |-> "done"]
    /\ pcWait = "done"
    /\ wg = 0
    /\ results \in [1..MetricCount -> Samples]
    /\ closed = TRUE
    /\ stats = ZeroStats
    /\ log = << >>
    /\ statsCh = << >>
    /\ outcome = [k \in Kinds |-> NoRet]
    /\ emitted = [k \in Kinds |-> << >>]
    /\ consumed = << >>
    /\ sent = 0
    /\ received = << >>
    /\ crashed = FALSE
    /\ hangs = {}
    /\ answers = {}
    /\ NoLoop
    /\ NoSentinel

AggregateNext == MainReceive \/ MainRangeEnd \/ MainSend \/ ReceiveStats

AggregateSpec == AggregateInit /\ [][AggregateNext]_vars
(***************************************************************************)
(* part_003: the older collector.  fetchSystemStats makes one channel of   *)
(* capacity 1 for each kind, starts three goroutines that call the sources *)
(* themselves and send the reading, or -1 (CPU) or nil (memory, disk) when *)
(* the call failed, and receives from the channels in the order cpu,       *)
(* memory, disk.  It runs over the same sources as the monitor of the      *)
(* round: the injected providers of a GopsutilMonitor, the fields of a     *)
(* MockSystemMonitor.                                                      *)
(***************************************************************************)
\* what cpu.Percent, mem.VirtualMemory and disk.Usage return
CPUSource(m) ==
    IF m.impl = "mock"
    THEN [percentages |-> <<m.mock.CPUUsage>>, err |-> m.mock.CPUError]
    ELSE m.prov.cpu
MemSource(m) ==
    IF m.impl = "mock"
    THEN [vmStat |-> m.mock.MemoryInfo, err |-> m.mock.MemoryError]
    ELSE m.prov.mem
DiskSource(m) ==
    IF m.impl = "mock"
    THEN [usageStat |-> m.mock.DiskInfo, err |-> m.mock.DiskError]
    ELSE m.prov.disk

\* the float64 -1 that marks a failed CPU call
MinusOne == Float(-1, 0, 1)

\* f / d for a float64 f that is not negative and a power of two d: exact
DivFloat64(f, d) == Float(f.ip \div d, (f.ip % d) * f.fd + f.fn, f.fd * d)

\* float64(u) / 1024 / 1024 / 1024
Gigabytes(u) == DivFloat64(DivFloat64(DivFloat(u, 1024), 1024), 1024)

\* var stats; cpuCh, memCh, diskCh := make(chan ..., 1)
SentinelStart ==
    /\ ~crashed
    /\ pcMain = "s_start"
    /\ stats' = ZeroStats
    /\ cpuCh' = << >> /\ memCh' = << >> /\ diskCh' = << >>
    /\ pcMain' = "s_go_cpu"
    /\ UNCHANGED <<loopVars, answers, hangs, monitor, pcFetch, pcWait, wg, results, closed, log,
                   statsCh, outcome, emitted, consumed, sent, received, crashed>>

\* go fetchCPUUsage(cpuCh) / fetchMemoryUsage(memCh) / fetchDiskUsage(diskCh)
SentinelGo(k, next) ==
    /\ ~crashed
    /\ pcMain = "s_go_" \o k
    /\ pcFetch' = [pcFetch EXCEPT ![k] = "s_call"]
    /\ pcMain' = next
    /\ UNCHANGED <<sentinelVars, loopVars, answers, hangs, monitor, pcWait, wg, results, closed,
                   stats, log, statsCh, outcome, emitted, consumed, sent, received, crashed>>

\* fetchCPUUsage: the first percentage, or -1 when the call failed or
\* returned none
fetchCPUUsage ==
    /\ ~crashed
    /\ pcFetch["cpu"] = "s_call"
    /\ Len(cpuCh) < 1
    /\ LET r == CPUSource(monitor)
       IN cpuCh' = Append(cpuCh, IF r.err = NilErr /\ Len(r.percentages) > 0
                                 THEN r.percentages[1] ELSE MinusOne)
    /\ pcFetch' = [pcFetch EXCEPT !["cpu"] = "done"]
    /\ UNCHANGED <<memCh, diskCh, loopVars, answers, hangs, monitor, pcMain, pcWait, wg, results,
                   closed, stats, log, statsCh, outcome, emitted, consumed, sent, received,
                   crashed>>

\* fetchMemoryUsage: the pointer the call returned, or nil when it failed
fetchMemoryUsage ==
    /\ ~crashed
    /\ pcFetch["memory"] = "s_call"
    /\ Len(memCh) < 1
    /\ LET r == MemSource(monitor)
       IN memCh' = Append(memCh, IF r.err = NilErr THEN r.vmStat ELSE NilInfo)
    /\ pcFetch' = [pcFetch EXCEPT !["memory"] = "done"]
    /\ UNCHANGED <<cpuCh, diskCh, loopVars, answers, hangs, monitor, pcMain, pcWait, wg, results,
                   closed, stats, log, statsCh, outcome, emitted, consumed, sent, received,
                   crashed>>

\* fetchDiskUsage: the pointer the call returned, or nil when it failed
fetchDiskUsage ==
    /\ ~crashed
    /\ pcFetch["disk"] = "s_call"
    /\ Len(diskCh) < 1
    /\ LET r == DiskSource(monitor)
       IN diskCh' = Append(diskCh, IF r.err = NilErr THEN r.usageStat ELSE NilInfo)
    /\ pcFetch' = [pcFetch EXCEPT !["disk"] = "done"]
    /\ UNCHANGED <<cpuCh, memCh, loopVars, answers, hangs, monitor, pcMain, pcWait, wg, results,
                   closed, stats, log, statsCh, outcome, emitted, consumed, sent, received,
                   crashed>>

\* if cpuUsage := <-cpuCh; cpuUsage >= 0 { stats.CPUUsage = cpuUsage }
SentinelCollectCPU ==
    /\ ~crashed
    /\ pcMain = "s_recv_cpu"
    /\ cpuCh # << >>
    /\ stats' = IF Head(cpuCh).ip >= 0 THEN [stats EXCEPT !.CPUUsage = Head(cpuCh)] ELSE stats
    /\ cpuCh' = Tail(cpuCh)
    /\ pcMain' = "s_recv_memory"
    /\ UNCHANGED <<memCh, diskCh, loopVars, answers, hangs, monitor, pcFetch, pcWait, wg, results,
                   closed, log, statsCh, outcome, emitted, consumed, sent, received, crashed>>

\* if vmStat := <-memCh; vmStat != nil { ... }
SentinelCollectMemory ==
    /\ ~crashed
    /\ pcMain = "s_recv_memory"
    /\ memCh # << >>
    /\ stats' = IF ~Head(memCh).isNil
                THEN [stats EXCEPT !.MemoryUsage = Head(memCh).UsedPercent,
                                   !.MemoryUsed = Gigabytes(Head(memCh).Used),
                                   !.MemoryTotal = Gigabytes(Head(memCh).Total)]
                ELSE stats
    /\ memCh' = Tail(memCh)
    /\ pcMain' = "s_recv_disk"
    /\ UNCHANGED <<cpuCh, diskCh, loopVars, answers, hangs, monitor, pcFetch, pcWait, wg, results,
                   closed, log, statsCh, outcome, emitted, consumed, sent, received, crashed>>

\* if diskStat := <-diskCh; diskStat != nil { ... }; the send on statsCh
\* that follows is the same statement as in fetcher.go
SentinelCollectDisk ==
    /\ ~crashed
    /\ pcMain = "s_recv_disk"
    /\ diskCh # << >>
    /\ stats' = IF ~Head(diskCh).isNil
                THEN [stats EXCEPT !.DiskUsage = Head(diskCh).UsedPercent,
                                   !.DiskUsed = Gigabytes(Head(diskCh).Used),
                                   !.DiskTotal = Gigabytes(Head(diskCh).Total)]
                ELSE stats
    /\ diskCh' = Tail(diskCh)
    /\ pcMain' = "send"
    /\ UNCHANGED <<cpuCh, memCh, loopVars, answers, hangs, monitor, pcFetch, pcWait, wg, results,
                   closed, log, statsCh, outcome, emitted, consumed, sent, received, crashed>>

sentinelFetchSystemStats ==
    \/ SentinelStart
    \/ SentinelGo("cpu", "s_go_memory")
    \/ SentinelGo("memory", "s_go_disk")
    \/ SentinelGo("disk", "s_recv_cpu")
    \/ SentinelCollectCPU
    \/ SentinelCollectMemory
    \/ SentinelCollectDisk
    \/ MainSend

SentinelInit ==
    /\ monitor \in Monitors
    /\ pcMain = "s_start"
    /\ pcFetch = [k \in Kinds |-> "unborn"]
    /\ pcWait = "unborn"
    /\ wg = 0
    /\ results = << >>
    /\ closed = FALSE
    /\ stats = ZeroStats
    /\ log = << >>
    /\ statsCh = << >>
    /\ outcome = [k \in Kinds |-> NoRet]
    /\ emitted = [k \in Kinds |-> << >>]
    /\ consumed = << >>
    /\ sent = 0
    /\ received = << >>
    /\ crashed = FALSE
    /\ hangs = {}
    /\ answers = {}
    /\ NoLoop
    /\ NoSentinel

SentinelNext ==
    \/ sentinelFetchSystemStats
    \/ fetchCPUUsage
    \/ fetchMemoryUsage
    \/ fetchDiskUsage
    \/ ReceiveStats

SentinelSpec == SentinelInit /\ [][SentinelNext]_vars
TypeOK ==
    /\ pcMain \in {"unborn", "start", "go_cpu", "go_memory", "go_disk", "go_wait", "range", "send", "returned"}
    /\ \A k \in Kinds : pcFetch[k] \in {"unborn", "call", "send", "defer", "done"}
    /\ pcWait \in {"unborn", "wait", "close", "done"}
    /\ wg \in 0..MetricCount
    /\ Len(results) <= ResultsBuffer
    /\ Len(statsCh) <= ChannelBuffer

(***************************************************************************)
(* Properties.                                                             *)
(***************************************************************************)
\* the snapshots the call has sent on statsCh, received or not
Snapshots == received \o statsCh

Returned == pcMain = "returned"

\* the provider call of fetcher k has returned
Called(k) == pcFetch[k] \in {"send", "defer", "done"}
Failed(k) == outcome[k].err # NilErr
Succeeded(k) == outcome[k].err = NilErr /\ (k = "cpu" \/ ~outcome[k].p.isNil)

\* f is exactly u bytes divided by 1024^3
IsGigabytes(f, u) ==
    /\ f.ip = u.hi
    /\ f.fd >= 1 /\ f.fd <= Limb /\ Limb % f.fd = 0
    /\ f.fn * (Limb \div f.fd) = u.lo

\* C1: for each of the 8 combinations of success and failure of the three
\* provider calls, the SystemStats of the round has every field of a failed
\* kind equal to 0 and every field of a succeeded kind equal to the
\* provider's value: the percentage copied, the byte counts divided by 1024^3.
C1_PartialFailureMerge ==
    \A i \in 1..Len(Snapshots) :
        LET s == Snapshots[i]
            c == outcome["cpu"]
            m == outcome["memory"]
            d == outcome["disk"]
        IN /\ Failed("cpu") => s.CPUUsage = Zero
           /\ Succeeded("cpu") => s.CPUUsage = c.f
           /\ Failed("memory") =>
                s.MemoryUsage = Zero /\ s.MemoryUsed = Zero /\ s.MemoryTotal = Zero
           /\ Succeeded("memory") =>
                /\ s.MemoryUsage = m.p.UsedPercent
                /\ IsGigabytes(s.MemoryUsed, m.p.Used)
                /\ IsGigabytes(s.MemoryTotal, m.p.Total)
           /\ Failed("disk") =>
                s.DiskUsage = Zero /\ s.DiskUsed = Zero /\ s.DiskTotal = Zero
           /\ Succeeded("disk") =>
                /\ s.DiskUsage = d.p.UsedPercent
                /\ IsGigabytes(s.DiskUsed, d.p.Used)
                /\ IsGigabytes(s.DiskTotal, d.p.Total)

\* a round has sent its snapshot with memory failed, CPU succeeded and disk
\* succeeded with a byte count that is not a whole number of gigabytes
C1_Witness ==
    /\ Returned /\ Len(Snapshots) = 1
    /\ Succeeded("cpu") /\ Failed("memory") /\ Succeeded("disk")
    /\ outcome["disk"].p.Used.lo > 0
    /\ Snapshots[1].DiskUsed.fn > 0
    /\ Snapshots[1].CPUUsage # Zero

\* the call of fetchSystemStats has ended: it returned or it panicked
Ended == Returned \/ crashed

\* C2: each call of fetchSystemStats sends exactly one SystemStats on
\* statsCh, never zero and never more than one, whatever the provider
\* outcomes and the interleaving of the fetch goroutines.
C2_ExactlyOneSnapshotPerCall ==
    /\ sent <= 1
    /\ Ended => sent = 1

\* the results of the three provider calls, taken in the order p of kinds
ResultsInOrder(p) == [i \in 1..Len(p) |-> FetchResult(p[i], outcome[p[i]])]

\* the statistics the loop body builds from the samples rs, first to last
RECURSIVE Aggregate(_, _)
Aggregate(st, rs) ==
    IF rs = << >> THEN st
    ELSE Aggregate(ProcessResult(st, << >>, Head(rs)).stats, Tail(rs))

Orders == {p \in [1..3 -> Kinds] : {p[i] : i \in 1..3} = Kinds}

TypesOf(rs) == [i \in 1..Len(rs) |-> rs[i].Type]

\* C3: for fixed provider outcomes the SystemStats of a round is the same
\* for every arrival order of the three samples: the snapshot sent equals
\* the merge of the three samples in each of the 6 orders.
C3_ArrivalOrderIndependent ==
    \A i \in 1..Len(Snapshots) : \A p \in Orders :
        Snapshots[i] = Aggregate(ZeroStats, ResultsInOrder(p))

\* a snapshot was sent by a round whose samples arrived disk, memory, cpu,
\* with the memory sample failed and the other two succeeded
C3_Witness ==
    /\ Len(Snapshots) = 1
    /\ TypesOf(consumed) = <<"disk", "memory", "cpu">>
    /\ Succeeded("cpu") /\ Failed("memory") /\ Succeeded("disk")

\* C4: in every round each of the three fetchers puts exactly one
\* MetricResult on the results channel, tagged with its own kind, whether
\* its provider call succeeded or failed: never two of a kind, one of each
\* kind once the fetcher is past its send, three in all when the channel is
\* closed, and the three consumed samples are one of each kind.
C4_OneSamplePerKind ==
    /\ \A k \in Kinds :
        /\ Len(emitted[k]) <= 1
        /\ pcFetch[k] \in {"defer", "done"} => Len(emitted[k]) = 1
        /\ \A i \in 1..Len(emitted[k]) : emitted[k][i].Type = k
    /\ closed => \A k \in Kinds : Len(emitted[k]) = 1
    /\ \A i \in 1..Len(results) : \A j \in 1..Len(results) :
        results[i].Type = results[j].Type => i = j
    /\ Returned =>
        /\ Len(consumed) = 3
        /\ {consumed[i].Type : i \in 1..3} = Kinds

\* the channel is closed after a round in which the disk call failed and
\* the CPU and memory calls succeeded
C4_Witness ==
    /\ closed
    /\ \A k \in Kinds : Len(emitted[k]) = 1 /\ pcFetch[k] = "done"
    /\ Succeeded("cpu") /\ Succeeded("memory") /\ Failed("disk")

\* C5: a fetcher whose provider call returned an error emits a MetricResult
\* with a non-nil Error and a nil Value; one whose call succeeded emits a nil
\* Error and the provider's value unchanged; no sample carries both an error
\* and a value.
C5_ErrorXorValue ==
    \A k \in Kinds : \A i \in 1..Len(emitted[k]) :
        LET r == emitted[k][i]
            o == outcome[k]
        IN /\ o.err # NilErr => r.Error = o.err /\ r.Value = NilValue
           /\ o.err = NilErr =>
                /\ r.Error = NilErr
                /\ k = "cpu" => r.Value.dyn = "float64" /\ r.Value.f = o.f
                /\ k = "memory" => r.Value.dyn = "*MemoryInfo" /\ r.Value.p = o.p
                /\ k = "disk" => r.Value.dyn = "*DiskInfo" /\ r.Value.p = o.p
           /\ ~(r.Error # NilErr /\ r.Value # NilValue)

\* the CPU fetcher has emitted the sample of a failed call and the memory
\* fetcher the sample of a successful one
C5_Witness ==
    /\ Len(emitted["cpu"]) = 1 /\ Failed("cpu")
    /\ emitted["cpu"][1].Error # NilErr
    /\ Len(emitted["memory"]) = 1 /\ Succeeded("memory")
    /\ emitted["memory"][1].Value.p = outcome["memory"].p

\* C6: the snapshot is sent only after all three fetch tasks have produced
\* their sample and finished: when a SystemStats has been sent, every
\* fetcher is done and all three samples, failed ones included, have been
\* consumed.
C6_SnapshotAfterJoin ==
    sent > 0 =>
        /\ \A k \in Kinds : pcFetch[k] = "done" /\ Len(emitted[k]) = 1
        /\ wg = 0 /\ closed
        /\ Len(consumed) = 3 /\ results = << >>

\* a snapshot has been sent by a round whose first sample was a failure
C6_Witness ==
    /\ sent = 1
    /\ Len(consumed) = 3 /\ consumed[1].Error # NilErr
    /\ \E k \in Kinds : Succeeded(k)

\* every provider call of the monitor returns a value or an error
ValueOrError ==
    \A k \in Kinds :
        Call(k, monitor).err # NilErr \/ k = "cpu" \/ ~Call(k, monitor).p.isNil

EmptyCPUSet ==
    /\ monitor.impl = "gopsutil"
    /\ monitor.prov.cpu.err = NilErr
    /\ monitor.prov.cpu.percentages = << >>

CPULogLines == SelectSeq(log, LAMBDA e : e.kind = "cpu")

\* C8: when the CPU source reports success with an empty percentage set,
\* GetCPUUsage returns the error "no CPU usage data returned", not a zero
\* reading with a nil error, and the round that uses it does not crash and
\* ends with CPUUsage = 0 and one logged error for the CPU.
C8_EmptyCPUSetIsError ==
    EmptyCPUSet =>
        /\ ~crashed
        /\ Called("cpu") =>
            /\ outcome["cpu"].err = <<"no CPU usage data returned">>
            /\ outcome["cpu"].f = Zero
        /\ \A i \in 1..Len(Snapshots) : Snapshots[i].CPUUsage = Zero
        /\ Returned =>
            /\ Len(CPULogLines) = 1
            /\ CPULogLines[1].err = <<"no CPU usage data returned">>

\* a round over an empty CPU set has returned, its memory and disk calls
\* having succeeded
C8_Witness ==
    /\ EmptyCPUSet
    /\ Returned /\ Len(Snapshots) = 1
    /\ Succeeded("memory") /\ Succeeded("disk")
    /\ Len(log) = 1

\* a consumed sample with a nil error that carries a nil reading
NilReading(r) ==
    /\ r.Error = NilErr
    /\ r.Value.dyn \in {"*MemoryInfo", "*DiskInfo"}
    /\ r.Value.p.isNil

\* C9: a provider that reports success but returns no usable reading is
\* treated as an error sample: when GetMemoryUsage or GetDiskUsage returns a
\* nil MemoryInfo/DiskInfo with a nil error, the sample is handled as a
\* failure (error logged, fields left at zero) and the round goes on to
\* its snapshot.
C9_NilReadingIsErrorSample ==
    \A i \in 1..Len(consumed) :
        NilReading(consumed[i]) =>
            /\ ~crashed
            /\ \E j \in 1..Len(log) : log[j].kind = consumed[i].Type

FailedSamples == SelectSeq(consumed, LAMBDA r : r.Error # NilErr)

\* C10: in every round the error log entries are exactly the failed samples:
\* each failed sample consumed so far is logged once, with its kind and
\* message, in order of arrival, no succeeded sample is logged, and at the
\* end the log has as many entries as provider calls failed.
C10_LogMatchesFailures ==
    /\ Len(log) = Len(FailedSamples)
    /\ \A i \in 1..Len(log) :
        /\ i <= Len(FailedSamples)
        /\ log[i].kind = FailedSamples[i].Type
        /\ log[i].err = FailedSamples[i].Error
    /\ Returned => Len(log) = Cardinality({k \in Kinds : Failed(k)})

\* scenario B: CPU succeeded, memory and disk failed, two log entries
C10_Witness ==
    /\ Returned
    /\ Succeeded("cpu") /\ Failed("memory") /\ Failed("disk")
    /\ Len(log) = 2
    /\ {log[1].kind, log[2].kind} = {"memory", "disk"}

\* the float64 that is the whole number k
Whole(k) == Float(k, 0, 1)

\* C11: a byte count of k * 1024^3, for every k of the range and for the
\* counts of the test (8, 16, 450, 1000), becomes exactly k gigabytes in the
\* snapshot: memory used and total, disk used and total.
C11_WholeGigabytesExact ==
    \A i \in 1..Len(Snapshots) :
        LET s == Snapshots[i]
            m == monitor.mock.MemoryInfo
            d == monitor.mock.DiskInfo
        IN /\ m.Used.lo = 0 => s.MemoryUsed = Whole(m.Used.hi)
           /\ m.Total.lo = 0 => s.MemoryTotal = Whole(m.Total.hi)
           /\ d.Used.lo = 0 => s.DiskUsed = Whole(d.Used.hi)
           /\ d.Total.lo = 0 => s.DiskTotal = Whole(d.Total.hi)

\* the round of the test has sent its snapshot: 8.0 of 16.0 GB of memory,
\* 450.0 of 1000.0 GB of disk
C11_Witness ==
    /\ Returned /\ Len(Snapshots) = 1
    /\ monitor.mock.MemoryInfo.Used = U64(8, 0)
    /\ monitor.mock.DiskInfo.Total = U64(1000, 0)
    /\ Snapshots[1].MemoryUsed = Whole(8)
    /\ Snapshots[1].MemoryTotal = Whole(16)
    /\ Snapshots[1].DiskUsed = Whole(450)
    /\ Snapshots[1].DiskTotal = Whole(1000)

\* this step starts a collection round
RoundStarts ==
    /\ pcMain' = "start"
    /\ pcMain # "start" \/ tickC' < tickC \/ pcApp' # pcApp

\* no goroutine of a round is running
RoundOver ==
    /\ pcMain \in {"unborn", "returned"}
    /\ \A k \in Kinds : pcFetch[k] \in {"unborn", "done"}
    /\ pcWait \in {"unborn", "done"}

\* C12: at most one collection round is in flight: whenever the dispatch
\* loop starts a round (initial update or tick), every goroutine of the
\* round before it has ended and its updateDisplay, render included, has
\* returned.
C12_OneRoundInFlight ==
    [][RoundStarts => RoundOver /\ pcApp \in {"run", "select"}]_vars

\* after a first round was rendered, a second one is in flight with its CPU
\* fetcher inside its provider call while the next tick already waits
C12_Witness ==
    /\ screen.drawn
    /\ pcApp = "update"
    /\ pcFetch["cpu"] = "call"
    /\ tickC = 1

\* this step takes a tick from ticker.C
TickHandled == tickC' < tickC

\* C13: once the loop has received a Quit event ("q" or "<C-c>") it has left
\* the select for good: no later step takes a tick, starts a collection
\* round or changes what is drawn.
C13_QuitStopsLoop ==
    [][quitSeen' =>
          /\ pcApp' \in {"return", "exited"}
          /\ ~TickHandled
          /\ ~RoundStarts
          /\ quitSeen => screen' = screen /\ UNCHANGED roundVars]_vars

\* the program has ended on a Quit event with a tick still waiting in
\* ticker.C, after at least one round was rendered
C13_Witness ==
    /\ quitSeen
    /\ pcApp = "exited"
    /\ tickC = 1
    /\ screen.drawn

\* the data of a snapshot that the widgets w hold
Data(w) ==
    [cpu |-> <<w.cpuGauge.Percent, w.cpuGauge.Label>>,
     memory |-> <<w.memoryGauge.Percent, w.memoryGauge.Label>>,
     disk |-> <<w.diskGauge.Percent, w.diskGauge.Label>>,
     rows |-> w.infoList.Rows]

\* this step is the select handling a Resize event
ResizeHandled == pcApp = "select" /\ uiEvent.ID = "<Resize>" /\ uiEvent' = NoEvent

\* the layout for the size s is in place in the widgets w
LaidOut(w, s) ==
    /\ w.cpuGauge.Rect = Rect(0, 0, s.Width \div 3, s.Height \div 2)
    /\ w.memoryGauge.Rect = Rect(s.Width \div 3, 0, (2 * s.Width) \div 3, s.Height \div 2)
    /\ w.diskGauge.Rect = Rect((2 * s.Width) \div 3, 0, s.Width, s.Height \div 2)
    /\ w.infoList.Rect = Rect(0, s.Height \div 2, s.Width, s.Height)

\* C14: handling a Resize event leaves Percent and Label of the three gauges
\* and the Rows of the info list as they were, in the widgets and in what
\* is drawn from them; no round is touched by it.
C14_ResizeKeepsData ==
    [][ResizeHandled =>
          /\ Data(widgets') = Data(widgets)
          /\ screen'.drawn /\ Data(screen'.frame) = Data(widgets)
          /\ UNCHANGED roundVars]_vars

\* the layout of the new size is drawn and the gauges still show the
\* snapshot rendered before the resize (CPU 75.5 %, memory 60 %)
C14_Witness ==
    /\ LaidOut(widgets, NewSize) /\ ~LaidOut(widgets, InitialSize)
    /\ screen = Render(widgets)
    /\ widgets.cpuGauge.Percent = 75
    /\ widgets.cpuGauge.Label = [set |-> TRUE, whole |-> 75, tenth |-> 5]
    /\ widgets.memoryGauge.Percent = 60
    /\ widgets.infoList.Rows.set

\* the widgets hold the data of a snapshot
HasSnapshot == widgets.infoList.Rows.set

\* C15: the step that handles a Resize event recomputes the layout for the
\* new size and draws it in that same step, taking no tick; with a snapshot
\* in the widgets it draws that snapshot again and starts no round, and
\* without one it starts a round.  (The select is reached only after the
\* initial update, so a snapshot is always there.)
C15_ResizeRendersAtOnce ==
    [][ResizeHandled =>
          /\ LaidOut(widgets', uiEvent.Payload)
          /\ screen' = Render(widgets')
          /\ ~TickHandled
          /\ HasSnapshot => Data(screen'.frame) = Data(widgets) /\ ~RoundStarts
          /\ ~HasSnapshot => RoundStarts]_vars

\* a resize was handled and drawn with no tick waiting and no round in
\* flight; the frame shows the second CPU reading (37.0 %) in the new layout
C15_Witness ==
    /\ pcApp = "select"
    /\ tickC = 0
    /\ RoundOver
    /\ screen.drawn /\ LaidOut(screen.frame, NewSize)
    /\ screen.frame.cpuGauge.Label = [set |-> TRUE, whole |-> 37, tenth |-> 0]

C17_OnePassPerTick ==
    [][/\ TickHandled => RoundStarts
       /\ RoundStarts => TickHandled]_vars

\* updateDisplay returns from its receive with the one snapshot of its round
SnapshotReceived ==
    pcApp = "update" /\ pcApp' # "update" =>
        /\ pcApp' = "render"
        /\ sent = 1 /\ Returned /\ RoundOver
        /\ received' = <<stats>> /\ statsCh' = << >>
        /\ widgets' = SetData(widgets, stats)

\* updateDisplay draws that snapshot and returns to the select
SnapshotRendered ==
    pcApp = "render" /\ pcApp' # "render" =>
        /\ pcApp' = "select"
        /\ Data(widgets) = Data(SetData(createWidgets, received[1]))
        /\ screen' = Render(widgets)

\* C17 (amended): a tick taken from ticker.C starts exactly one round, whose
\* one snapshot updateDisplay receives and draws once before the select is
\* reached again; every round is started by a tick taken or is the initial
\* update of run, so that the rounds are one more than the ticks handled.
C17_OnePassPerTickOrInitial ==
    [][/\ TickHandled => RoundStarts /\ pcApp = "select" /\ tickC = 1 /\ tickC' = 0
       /\ RoundStarts => TickHandled \/ (pcApp = "run" /\ ~screen.drawn)
       /\ SnapshotReceived
       /\ SnapshotRendered]_vars

\* the round of a tick has handed over its snapshot, which differs from the
\* one on the screen and is about to be drawn
C17_Witness ==
    /\ pcApp = "render"
    /\ screen.drawn
    /\ Len(received) = 1
    /\ Data(screen.frame) # Data(widgets)

\* newApp has returned the error of ui.Init()
InitFailed == pcApp = "init_failed"

\* C18: when ui.Init() fails, newApp returns its error and no App: there is
\* no ticker and no event channel, the widgets are not set up, nothing is
\* drawn, no round is started, and nothing happens afterwards.
C18_InitFailureStartsNothing ==
    [][InitFailed' =>
          /\ pcApp = "main"
          /\ ticker' = "nil" /\ tickC' = 0
          /\ ~polling' /\ uiEvent' = NoEvent
          /\ uiState' = "off"
          /\ widgets' = createWidgets /\ screen' = Blank
          /\ pcMain' = "unborn" /\ RoundOver' /\ sent' = 0
          /\ ~quitSeen']_vars

\* ui.Init() has failed
C18_Witness ==
    /\ InitFailed
    /\ ticker = "nil"
    /\ ~polling
    /\ pcMain = "unborn"

\* the text "0.0"
ZeroText == [set |-> TRUE, whole |-> 0, tenth |-> 0]

\* the widgets w show nothing but zeros for the kind k
ShowsZero(w, k) ==
    CASE k = "cpu" ->
            /\ w.cpuGauge.Percent = 0 /\ w.cpuGauge.Label = ZeroText
            /\ w.infoList.Rows.CPU = ZeroText
      [] k = "memory" ->
            /\ w.memoryGauge.Percent = 0 /\ w.memoryGauge.Label = ZeroText
            /\ w.infoList.Rows.Memory = <<ZeroText, ZeroText, ZeroText>>
      [] k = "disk" ->
            /\ w.diskGauge.Percent = 0 /\ w.diskGauge.Label = ZeroText
            /\ w.infoList.Rows.Disk = <<ZeroText, ZeroText, ZeroText>>

\* the widgets w show the reading that the provider call of kind k returned
\* in the round just finished
ShowsReading(w, k) ==
    CASE k = "cpu" ->
            /\ w.cpuGauge.Percent = Truncate(outcome[k].f)
            /\ w.cpuGauge.Label = Sprintf(outcome[k].f)
            /\ w.infoList.Rows.CPU = Sprintf(outcome[k].f)
      [] k = "memory" ->
            /\ w.memoryGauge.Percent = Truncate(outcome[k].p.UsedPercent)
            /\ w.memoryGauge.Label = Sprintf(outcome[k].p.UsedPercent)
            /\ w.infoList.Rows.Memory[1] = Sprintf(outcome[k].p.UsedPercent)
            /\ w.infoList.Rows.Memory[2] = Sprintf(DivFloat(outcome[k].p.Used, Limb))
            /\ w.infoList.Rows.Memory[3] = Sprintf(DivFloat(outcome[k].p.Total, Limb))
      [] k = "disk" ->
            /\ w.diskGauge.Percent = Truncate(outcome[k].p.UsedPercent)
            /\ w.diskGauge.Label = Sprintf(outcome[k].p.UsedPercent)
            /\ w.infoList.Rows.Disk[1] = Sprintf(outcome[k].p.UsedPercent)
            /\ w.infoList.Rows.Disk[2] = Sprintf(DivFloat(outcome[k].p.Used, Limb))
            /\ w.infoList.Rows.Disk[3] = Sprintf(DivFloat(outcome[k].p.Total, Limb))

\* updateDisplay has put the snapshot of the last round into the widgets
\* and no later round has begun
Displayed == pcApp \in {"render", "select", "return", "exited"}

\* C19: what the widgets show after a round is decided by the outcomes of
\* that round alone, whatever they showed before: zeros for a kind whose
\* call failed in it, the reading just returned for a kind whose call
\* succeeded in it.
C19_DisplayFollowsCurrentRound ==
    Displayed =>
        \A k \in Kinds :
            /\ Failed(k) => ShowsZero(widgets, k)
            /\ Succeeded(k) => ShowsReading(widgets, k)

\* the CPU call has failed in a round that follows one in which it
\* succeeded: the screen still has 75.5 % from that round, the widgets now
\* hold 0 for the CPU and the memory reading of this round
C19_Witness ==
    /\ pcApp = "render"
    /\ screen.drawn
    /\ screen.frame.cpuGauge.Label = [set |-> TRUE, whole |-> 75, tenth |-> 5]
    /\ Failed("cpu")
    /\ widgets.cpuGauge.Percent = 0 /\ widgets.cpuGauge.Label = ZeroText
    /\ widgets.memoryGauge.Percent = 60

\* a provider call of the round in progress never returns
Hanging == hangs # {}

\* C20: from the start of a round in which one provider call never returns,
\* that round sends no snapshot, updateDisplay stays in its receive, nothing
\* more is drawn, no tick is taken and no round is started.
C20_HangStallsAllRounds ==
    [][Hanging =>
          /\ hangs' = hangs
          /\ sent' = 0 /\ statsCh' = << >> /\ received' = << >>
          /\ pcMain' # "returned"
          /\ pcApp' = "update"
          /\ screen' = screen
          /\ ~TickHandled
          /\ ~RoundStarts]_vars

\* a later round is stuck on its memory call: the two other samples are
\* merged, the aggregation loop waits for the third, and a tick and a Quit
\* event wait unhandled
C20_Witness ==
    /\ hangs = {"memory"}
    /\ screen.drawn
    /\ pcFetch["memory"] = "call"
    /\ pcFetch["cpu"] = "done" /\ pcFetch["disk"] = "done"
    /\ pcMain = "range" /\ Len(consumed) = 2
    /\ pcApp = "update"
    /\ tickC = 1
    /\ uiEvent.ID = "q"

\* a Quit event waits on the UI event channel
QuitDelivered == uiEvent.ID \in {"q", "<C-c>"}

\* the dispatch loop has returned
LoopExited == pcApp \in {"return", "exited"}

\* C21: if no provider call ever hangs, a Quit event that is delivered on
\* the UI event channel is eventually received by the select, and the loop
\* exits, however many ticks fire in between.
C21_QuitEventuallyHandled ==
    []~Hanging => (QuitDelivered ~> (quitSeen /\ LoopExited))

\* a Quit event is handled that had to wait: the loop has left a select at
\* which a tick was ready as well, after at least one round was drawn
C21_Witness ==
    /\ quitSeen
    /\ pcApp = "return"
    /\ tickC = 1
    /\ screen.drawn
    /\ ticker = "running"

\* the kind whose fetcher fetchSystemStats starts next, if it is at a go
\* statement for a fetcher
NextToStart(k) == pcMain = "go_" \o k

\* C22: the three provider calls are independent of each other.  Whatever
\* the other fetchers are doing, fetchSystemStats can start the next fetcher,
\* a fetcher that is at its provider call can make it, and a fetcher that
\* has its result can send it: the channel is open and has room.
C22_CallsIndependent ==
    ~crashed =>
        /\ NextToStart("cpu") => ENABLED MainGo("cpu", "go_memory")
        /\ NextToStart("memory") => ENABLED MainGo("memory", "go_disk")
        /\ NextToStart("disk") => ENABLED MainGo("disk", "go_wait")
        /\ \A k \in Kinds :
              /\ pcFetch[k] = "call" => ENABLED FetchCall(k)
              /\ pcFetch[k] = "send" =>
                    ENABLED FetchSend(k) /\ ~closed /\ Len(results) < ResultsBuffer

\* all three provider calls are in flight at once
C22_Witness ==
    /\ \A k \in Kinds : pcFetch[k] = "call"
    /\ results = << >>
    /\ ~crashed

\* the aggregation loop of the round has been left
LoopEnded == pcMain \in {"send", "returned"}

\* C23: the aggregation loop consumes at most 3 samples, it can be left only
\* when it has consumed 3, and it has consumed exactly 3 when it has been
\* left; after the third sample nothing is left to consume and no fetcher
\* has a sample to send.  What ends it is the close of the channel after the
\* third Done, whatever the kinds and outcomes of the samples.
C23_LoopEndsAfterThree ==
    /\ Len(consumed) <= 3
    /\ LoopEnded => Len(consumed) = 3
    /\ ~crashed /\ ENABLED MainRangeEnd => Len(consumed) = 3
    /\ Len(consumed) = 3 =>
          /\ results = << >>
          /\ \A k \in Kinds : pcFetch[k] \in {"defer", "done"}
          /\ ~ENABLED MainReceive

\* the loop has been left after three samples none of which carried a
\* value: all three provider calls failed
C23_Witness ==
    /\ pcMain = "send"
    /\ Len(consumed) = 3
    /\ \A i \in 1..3 : consumed[i].Error # NilErr
    /\ stats = ZeroStats

\* the float64 f is not negative
NonNegative(f) == f.ip >= 0 /\ f.fn >= 0 /\ f.fd >= 1

Fields ==
    {"CPUUsage", "MemoryUsage", "MemoryUsed", "MemoryTotal", "DiskUsage", "DiskUsed",
     "DiskTotal"}

\* C24: every field of every snapshot sent, and of the snapshot being
\* built, is 0 or a reading that is not negative; a failed kind leaves 0,
\* never -1 or another marker.
C24_NoNegativeField ==
    /\ \A x \in Fields : NonNegative(stats[x])
    /\ \A i \in 1..Len(Snapshots) : \A x \in Fields : NonNegative(Snapshots[i][x])
    /\ \A i \in 1..Len(Snapshots) :
          /\ Failed("cpu") => Snapshots[i].CPUUsage = Zero
          /\ Failed("memory") => Snapshots[i].MemoryUsed = Zero
          /\ Failed("disk") => Snapshots[i].DiskUsed = Zero

\* a snapshot was sent in which the failed CPU reading is 0 next to a
\* memory reading of 4.5 GB
C24_Witness ==
    /\ Returned /\ Len(Snapshots) = 1
    /\ Failed("cpu") /\ Succeeded("memory")
    /\ Snapshots[1].CPUUsage = Zero
    /\ Snapshots[1].MemoryUsed = Float(4, 1, 2)

\* the error the injected source of kind k returns
SourceErr(k) ==
    CASE k = "cpu" -> monitor.prov.cpu.err
      [] k = "memory" -> monitor.prov.mem.err
      [] k = "disk" -> monitor.prov.disk.err

\* what the method of kind k puts in front of its source's error
FailureText(k) ==
    CASE k = "cpu" -> "failed to get CPU usage"
      [] k = "memory" -> "failed to get memory usage"
      [] k = "disk" -> "failed to get disk usage"

\* the error's text contains s: one of its messages is s, or s followed
\* by the path
Contains(err, s) == \E i \in 1..Len(err) : err[i] \in {s, s \o " for C:"}

\* the monitor m with the source of kind k replaced by a working one
Healed(m, k) ==
    CASE k = "cpu" -> [m EXCEPT !.prov.cpu = [percentages |-> <<CPUReading(1)>>, err |-> NilErr]]
      [] k = "memory" -> [m EXCEPT !.prov.mem = [vmStat |-> MemReading(1), err |-> NilErr]]
      [] k = "disk" -> [m EXCEPT !.prov.disk = [usageStat |-> DiskReading(1), err |-> NilErr]]

\* C25: when the injected source of a kind returns an error, the
\* GopsutilMonitor method of that kind returns an error that contains the
\* kind's failure text and wraps the source's error, with a zero or nil
\* reading; the other two methods return what they return when that source
\* works.
C25_SourceErrorWrapped ==
    \A k \in Kinds :
        monitor.impl = "gopsutil" /\ SourceErr(k) # NilErr =>
            /\ Called(k) =>
                  /\ outcome[k].err # NilErr
                  /\ Contains(outcome[k].err, FailureText(k))
                  /\ Contains(outcome[k].err, SourceErr(k)[1])
                  /\ outcome[k].f = Zero /\ outcome[k].p = NilInfo
            /\ \A j \in Kinds \ {k} : Called(j) => outcome[j] = Call(j, Healed(monitor, k))

\* the memory source failed and the CPU and disk methods returned their
\* sources' readings
C25_Witness ==
    /\ monitor.impl = "gopsutil" /\ \A k \in Kinds : Called(k)
    /\ outcome["memory"].err = <<"failed to get memory usage", "mock memory error">>
    /\ outcome["memory"].p.isNil
    /\ outcome["cpu"] = Ret(CPUReading(2), NilInfo, NilErr)
    /\ outcome["disk"] = Ret(Zero, DiskReading(2), NilErr)

\* the reading the injected source of kind k returns
SourceReading(k) ==
    CASE k = "cpu" -> Ret(monitor.prov.cpu.percentages[1], NilInfo, NilErr)
      [] k = "memory" -> Ret(Zero, monitor.prov.mem.vmStat, NilErr)
      [] k = "disk" -> Ret(Zero, monitor.prov.disk.usageStat, NilErr)

\* the source of kind k returned data
SourceSucceeds(k) ==
    /\ SourceErr(k) = NilErr
    /\ k = "cpu" => Len(monitor.prov.cpu.percentages) > 0

\* C26: when the injected source of a kind succeeds, the GopsutilMonitor
\* method of that kind returns a nil error and the source's data as they
\* are: the first element of the percentage set, or a non-nil pointer to
\* the source's UsedPercent, Used and Total.
C26_SourceDataUnchanged ==
    \A k \in Kinds :
        monitor.impl = "gopsutil" /\ SourceSucceeds(k) /\ Called(k) =>
            /\ outcome[k] = SourceReading(k)
            /\ k # "cpu" => ~outcome[k].p.isNil

\* the CPU source returned two percentages and the method the first, next
\* to memory and disk readings with byte counts that differ from their totals
C26_Witness ==
    /\ monitor.impl = "gopsutil" /\ \A k \in Kinds : Called(k)
    /\ monitor.prov.cpu.percentages = <<Zero, CPUReading(1)>>
    /\ outcome["cpu"] = Ret(Zero, NilInfo, NilErr)
    /\ outcome["memory"].p = Info(Float(30, 0, 1), U64(4, Limb \div 2), U64(8, 0))
    /\ outcome["disk"].p = Info(Float(22, 0, 1), U64(225, Limb \div 4), U64(500, 0))

\* C27: the results channel never holds more than 3 samples, and a fetcher
\* that has its sample ready can send it and then call Done, whatever the
\* aggregator has received so far: its send finds room in the buffer.
C27_SendNeverBlocks ==
    /\ Len(results) <= ResultsBuffer
    /\ Len(results) <= Cardinality({k \in Kinds : Called(k) /\ pcFetch[k] # "send"})
    /\ ~crashed =>
          \A k \in Kinds :
              /\ pcFetch[k] = "send" =>
                    /\ Len(results) < ResultsBuffer
                    /\ ENABLED FetchSend(k)
              /\ pcFetch[k] = "defer" => ENABLED FetchDone(k)

\* the three fetchers have sent and called Done, the channel holds their 3
\* samples and the aggregator has not started to receive
C27_Witness ==
    /\ \A k \in Kinds : pcFetch[k] = "done"
    /\ Len(results) = 3 /\ consumed = << >> /\ wg = 0
    /\ pcMain = "go_wait" /\ ~closed

\* C28: the results channel is closed once, by a close that finds it open,
\* and only after the three fetchers have sent their sample and called Done;
\* no fetcher is left to send on the closed channel, and the 3 samples are
\* all received before the aggregator sees the close.
C28_ClosedOnceAfterAllSent ==
    /\ pcWait = "close" => ~closed /\ wg = 0
    /\ closed =>
          /\ pcWait = "done"
          /\ \A k \in Kinds : pcFetch[k] = "done" /\ Len(emitted[k]) = 1
          /\ Len(consumed) + Len(results) = 3
    /\ \A k \in Kinds : pcFetch[k] \in {"call", "send"} => ~closed /\ pcWait # "close"
    /\ pcMain = "range" /\ closed /\ Len(consumed) < 3 => results # << >> /\ ~ENABLED MainRangeEnd

\* the channel was closed with the 3 samples still in it, before the
\* aggregator received any
C28_Witness ==
    /\ closed /\ pcWait = "done" /\ pcMain = "range"
    /\ consumed = << >> /\ Len(results) = 3 /\ ~crashed

\* C29: fetchSystemStats does not block on "statsCh <- stats": when it
\* gets there the channel of capacity 1 is empty, so the send goes through
\* with nobody receiving, and the function returns.
C29_SnapshotSendNeverBlocks ==
    /\ pcMain = "send" =>
          /\ statsCh = << >>
          /\ Len(statsCh) < ChannelBuffer
          /\ ~crashed => ENABLED MainSend
    /\ pcMain = "returned" => sent = 1 /\ Len(statsCh) + Len(received) = 1

\* fetchSystemStats has returned while its snapshot waits in the channel
\* and nothing was received
C29_Witness ==
    pcMain = "returned" /\ Len(statsCh) = 1 /\ received = << >> /\ sent = 1 /\ ~crashed

\* this step takes an event from the UI event channel
EventHandled == uiEvent # NoEvent /\ uiEvent' = NoEvent

\* the first snapshot is in the widgets and has been drawn
FirstRendered == HasSnapshot /\ screen.drawn /\ Data(screen.frame) = Data(widgets)

\* C30: run completes one collection round and its render before it gets to
\* the select: every step that takes a tick or a UI event (Resize, Quit or
\* any other) is taken at the select with the first snapshot rendered, so
\* the widgets hold a snapshot whenever a Resize is handled.
C30_FirstRenderBeforeDispatch ==
    [][/\ TickHandled \/ EventHandled => pcApp = "select" /\ FirstRendered
       /\ ResizeHandled => HasSnapshot
       /\ pcApp' = "select" => FirstRendered']_vars

\* a tick and a Resize event wait while the initial round, nothing drawn
\* yet, has two fetchers inside their provider calls
C30_Witness ==
    /\ pcApp = "update" /\ ~screen.drawn /\ ~HasSnapshot
    /\ tickC = 1 /\ uiEvent.ID = "<Resize>"
    /\ pcFetch["memory"] = "call" /\ pcFetch["disk"] = "call"

\* updateDisplay is at work: waiting for the round's snapshot or about to
\* render it
InUpdateDisplay == pcApp \in {"update", "render"}

\* C31: no UI event is handled while updateDisplay is at work: an event
\* that is on the channel during a round stays there until the render has
\* returned to the select, where the round's goroutines have all ended; and
\* in a round with a provider call that never returns no event is taken,
\* no Quit is seen and the loop does not exit.
C31_NoEventDuringRound ==
    [][/\ EventHandled => pcApp = "select" /\ RoundOver /\ ~Hanging
       /\ InUpdateDisplay /\ uiEvent # NoEvent => uiEvent' = uiEvent /\ quitSeen' = quitSeen
       /\ Hanging => ~EventHandled /\ quitSeen' = quitSeen /\ ~LoopExited /\ ~LoopExited']_vars

\* in a round after the first the CPU call does not return, the snapshot
\* cannot be sent, and a <C-c> waits with no tick pending
C31_Witness ==
    /\ hangs = {"cpu"} /\ pcFetch["cpu"] = "call"
    /\ pcFetch["memory"] = "done" /\ pcFetch["disk"] = "done"
    /\ pcApp = "update" /\ screen.drawn
    /\ uiEvent.ID = "<C-c>" /\ ~quitSeen /\ tickC = 0

\* the select has a tick and a UI event to choose from
BothReady == pcApp = "select" /\ tickC = 1 /\ uiEvent # NoEvent

\* C32: with a tick and a UI event both ready the select can take either:
\* the tick case is open, so that a round may run while a Quit waits, and
\* the event case is open, so that a Quit may be handled while a tick waits.
C32_NoPriority ==
    BothReady => ENABLED SelectTick /\ ENABLED SelectUIEvent

\* the loop is at its select, a snapshot on the screen, with a tick and a
\* Quit both ready
C32_Witness ==
    BothReady /\ uiEvent.ID = "q" /\ screen.drawn /\ ~quitSeen /\ ticker = "running"

QuitIDs == {"q", "<C-c>"}

\* C33: the step that handles a UI event leaves the loop exactly when the
\* event's ID is "q" or "<C-c>"; for "<Resize>" it lays out for the new size,
\* draws, and stays in the loop; for any other ID it stays in the loop and
\* changes nothing but the event channel: no widget, nothing drawn, no
\* round, no tick taken.
C33_HandleUIEventCases ==
    [][EventHandled =>
          /\ pcApp' = "return" <=> uiEvent.ID \in QuitIDs
          /\ pcApp' = "select" <=> uiEvent.ID \notin QuitIDs
          /\ uiEvent.ID = "<Resize>" =>
                /\ LaidOut(widgets', uiEvent.Payload)
                /\ screen' = Render(widgets')
          /\ uiEvent.ID \notin QuitIDs \cup {"<Resize>"} =>
                /\ widgets' = widgets /\ screen' = screen
                /\ quitSeen' = quitSeen
                /\ ~RoundStarts /\ ~TickHandled
                /\ UNCHANGED <<sentinelVars, roundVars, uiState, polling, ticker, tickC>>]_vars

\* the key "a" is on the event channel of a loop that has handled a Resize
\* and stayed at its select
C33_Witness ==
    /\ pcApp = "select" /\ uiEvent.ID = "a" /\ ~quitSeen
    /\ screen.drawn /\ LaidOut(screen.frame, NewSize) /\ tickC = 0

\* the sample r has a nil Error and no case of the switch takes it: its
\* Type is none of the three kinds, or its Value is not of the type that
\* goes with its Type
Mismatched(r) ==
    /\ r.Error = NilErr
    /\ ~(r.Type = "cpu" /\ r.Value.dyn = "float64")
    /\ ~(r.Type = "memory" /\ r.Value.dyn = "*MemoryInfo")
    /\ ~(r.Type = "disk" /\ r.Value.dyn = "*DiskInfo")

\* this step is an iteration of the loop over the sample at the head of
\* the channel
SampleProcessed == pcMain = "range" /\ results # << >> /\ consumed' = Append(consumed, Head(results))

\* C34: the iteration over a sample with a nil Error that no case of the
\* switch takes changes no field of the snapshot, logs nothing and does not
\* panic; the loop goes on, and three such samples end in a snapshot of
\* zeros being sent with an empty log.
C34_MismatchedSampleIgnored ==
    [][/\ SampleProcessed /\ Mismatched(Head(results)) =>
             /\ stats' = stats /\ log' = log /\ ~crashed'
             /\ pcMain' = "range" /\ results' = Tail(results)
             /\ results' # << >> \/ closed'
       /\ pcMain' = "returned" /\ (\A i \in 1..Len(consumed) : Mismatched(consumed[i])) =>
             /\ Len(consumed) = 3
             /\ stats' = ZeroStats /\ log' = << >>
             /\ sent' = 1 /\ Snapshots' = <<ZeroStats>>]_vars

\* the round has returned over a sample of an unknown type, a "cpu" sample
\* that carries a *MemoryInfo and a "memory" sample without a value: its
\* snapshot is all zeros and nothing was logged
C34_Witness ==
    /\ pcMain = "returned" /\ ~crashed
    /\ consumed = <<MetricResult("gpu", FloatValue(CPUReading(1)), NilErr),
                    MetricResult("cpu", MemValue(MemReading(1)), NilErr),
                    MetricResult("memory", NilValue, NilErr)>>
    /\ Snapshots = <<ZeroStats>> /\ log = << >>

\* what the collector of fetcher.go makes of the results of the three
\* provider calls of the monitor m, taken in the order rs of kinds: its
\* statistics, and whether it panics on the way
RECURSIVE WaitGroupRound(_, _, _)
WaitGroupRound(st, m, ks) ==
    IF ks = << >> THEN [stats |-> st, panic |-> FALSE]
    ELSE LET o == ProcessResult(st, << >>, FetchResult(Head(ks), Call(Head(ks), m)))
         IN IF o.panic THEN [stats |-> o.stats, panic |-> TRUE]
            ELSE WaitGroupRound(o.stats, m, Tail(ks))

====
